---- MODULE Spec2Model ----
(***************************************************************************)
(* A model of the study platform's turn engine: chat() in graph.py and the *)
(* graph nodes in agents.py (router, assistant, tools, verifier, revise).  *)
(*                                                                         *)
(* Strings are atoms.  Case conversion and word splitting are given by     *)
(* tables over the strings the model uses; a confidence is an integer      *)
(* number of hundredths (0.65 is 65).                                      *)
(***************************************************************************)
EXTENDS Integers, Sequences, FiniteSets, TLC

\* ------------------------------------------------------------------------
\* Bounds of the model
\* ------------------------------------------------------------------------

\* Turns submitted in one run of Spec.
MaxTurns == 3

\* Tool rounds the generation backend may ask for within one turn.
MaxToolRounds == 1

\* Turns a session has been through before the turn SpecRouter or SpecFlow runs.
MaxPriorTurns == 2

\* ------------------------------------------------------------------------
\* models.py: Subject
\* ------------------------------------------------------------------------

None == "None"

Subject == {"python", "langgraph", "langchain", "javascript", "llm",
            "automation", "n8n", "gohighlevel", "general"}

GENERAL == "general"

LANGGRAPH == "langgraph"

\* ------------------------------------------------------------------------
\* str.lower / str.upper / str.capitalize on the strings of the model
\* ------------------------------------------------------------------------

\* <<s, s.lower(), s.upper(), s.capitalize()>>
CaseTable ==
  { <<"ANSWER", "answer", "ANSWER", "Answer">>,
    <<"answer", "answer", "ANSWER", "Answer">>,
    <<"TEACH", "teach", "TEACH", "Teach">>,
    <<"Teach", "teach", "TEACH", "Teach">>,
    <<"QUIZ", "quiz", "QUIZ", "Quiz">>,
    <<"DEBUG", "debug", "DEBUG", "Debug">>,
    <<"ASK_CLARIFY", "ask_clarify", "ASK_CLARIFY", "Ask_clarify">>,
    <<"SIMPLIFY", "simplify", "SIMPLIFY", "Simplify">>,
    <<"simplify", "simplify", "SIMPLIFY", "Simplify">>,
    <<"CHAT", "chat", "CHAT", "Chat">>,
    <<"", "", "", "">>,
    <<"LangGraph", "langgraph", "LANGGRAPH", "Langgraph">>,
    <<"langgraph", "langgraph", "LANGGRAPH", "Langgraph">>,
    <<"Langgraph", "langgraph", "LANGGRAPH", "Langgraph">>,
    <<"LANGGRAPH", "langgraph", "LANGGRAPH", "Langgraph">>,
    <<"Python", "python", "PYTHON", "Python">>,
    <<"python", "python", "PYTHON", "Python">>,
    <<"PYTHON", "python", "PYTHON", "Python">>,
    <<"LangChain", "langchain", "LANGCHAIN", "Langchain">>,
    <<"langchain", "langchain", "LANGCHAIN", "Langchain">>,
    <<"Langchain", "langchain", "LANGCHAIN", "Langchain">>,
    <<"JavaScript", "javascript", "JAVASCRIPT", "Javascript">>,
    <<"javascript", "javascript", "JAVASCRIPT", "Javascript">>,
    <<"Javascript", "javascript", "JAVASCRIPT", "Javascript">>,
    <<"LLM", "llm", "LLM", "Llm">>,
    <<"llm", "llm", "LLM", "Llm">>,
    <<"Llm", "llm", "LLM", "Llm">>,
    <<"Automation", "automation", "AUTOMATION", "Automation">>,
    <<"automation", "automation", "AUTOMATION", "Automation">>,
    <<"n8n", "n8n", "N8N", "N8n">>,
    <<"N8n", "n8n", "N8N", "N8n">>,
    <<"N8N", "n8n", "N8N", "N8n">>,
    <<"GoHighLevel", "gohighlevel", "GOHIGHLEVEL", "Gohighlevel">>,
    <<"gohighlevel", "gohighlevel", "GOHIGHLEVEL", "Gohighlevel">>,
    <<"Gohighlevel", "gohighlevel", "GOHIGHLEVEL", "Gohighlevel">>,
    <<"Unknown", "unknown", "UNKNOWN", "Unknown">>,
    <<"unknown", "unknown", "UNKNOWN", "Unknown">>,
    <<"General", "general", "GENERAL", "General">>,
    <<"general", "general", "GENERAL", "General">>,
    <<"Rust", "rust", "RUST", "Rust">>,
    <<"None", "none", "NONE", "None">>,
    \* words of the utterances that are not lower case already
    <<"I", "i", "I", "I">>,
    <<"DONT", "dont", "DONT", "Dont">>,
    <<"UNDERSTAND", "understand", "UNDERSTAND", "Understand">>,
    <<"Explain", "explain", "EXPLAIN", "Explain">> }

CaseRow(s) == CHOOSE r \in CaseTable : r[1] = s

HasCaseRow(s) == \E r \in CaseTable : r[1] = s

\* str.lower(): a string without a row holds no upper-case letter.
Lower(s) == IF HasCaseRow(s) THEN CaseRow(s)[2] ELSE s

\* str.upper(): every string it is applied to has a row.
Upper(s) == CaseRow(s)[3]

\* str.capitalize(): first letter upper, the rest lower.
Capitalize(s) == CaseRow(s)[4]

\* ------------------------------------------------------------------------
\* agents.py: intent heuristics
\* ------------------------------------------------------------------------

\* The utterances of the model, each with its words.  A keyword is matched
\* as a run of consecutive words of the lower-cased utterance; on these
\* utterances that agrees with Python's substring test.
Utterances ==
  { "how do LangGraph reducers merge state",
    "I DONT UNDERSTAND",
    "tell me in order way",
    "what is the main concept of LangGraph",
    "Explain more about python decorators",
    "show code for a python loop" }

Words(u) ==
  CASE u = "how do LangGraph reducers merge state" ->
         <<"how", "do", "LangGraph", "reducers", "merge", "state">>
    [] u = "I DONT UNDERSTAND" -> <<"I", "DONT", "UNDERSTAND">>
    [] u = "tell me in order way" -> <<"tell", "me", "in", "order", "way">>
    [] u = "what is the main concept of LangGraph" ->
         <<"what", "is", "the", "main", "concept", "of", "LangGraph">>
    [] u = "Explain more about python decorators" ->
         <<"Explain", "more", "about", "python", "decorators">>
    [] u = "show code for a python loop" ->
         <<"show", "code", "for", "a", "python", "loop">>
    [] OTHER -> <<>>

VERBOSE_KEYWORDS ==
  { <<"detail">>, <<"detailed">>, <<"deep">>, <<"deeper">>, <<"expand">>,
    <<"explain", "more">>, <<"step", "by", "step">>, <<"step-by-step">>,
    <<"elaborate">>, <<"in", "depth">>, <<"in-depth">>,
    <<"comprehensive">>, <<"thorough">>, <<"full", "explanation">>,
    <<"more", "info">>, <<"more", "information">> }

SIMPLIFY_KEYWORDS ==
  { <<"im", "not", "a", "tech", "person">>,
    <<"i'm", "not", "a", "tech", "person">>,
    <<"not", "a", "tech", "person">>, <<"i", "dont", "understand">>,
    <<"i", "don't", "understand">>, <<"don't", "understand">>,
    <<"dont", "understand">>, <<"confusing">>, <<"confused">>,
    <<"explain", "simpler">>, <<"explain", "it", "simpler">>,
    <<"explain", "like", "im", "5">>, <<"explain", "like", "i'm", "5">>,
    <<"explain", "like", "im", "12">>,
    <<"explain", "like", "i'm", "12">>, <<"eli5">>, <<"in", "order">>,
    <<"in", "order", "way">>, <<"tell", "me", "in", "order">>,
    <<"break", "it", "down">>, <<"break", "down">>,
    <<"use", "simple", "words">>, <<"simpler", "words">>,
    <<"too", "technical">>, <<"too", "complicated">>,
    <<"too", "complex">>, <<"what", "does", "that", "mean">>,
    <<"what", "do", "you", "mean">>, <<"what", "do", "u", "mean">>,
    <<"explain", "that">>, <<"can", "you", "simplify">>, <<"simplify">>,
    <<"dumb", "it", "down">>, <<"layman", "terms">>,
    <<"layman's", "terms">>, <<"plain", "english">>,
    <<"beginner", "friendly">>, <<"for", "beginners">>,
    <<"simple", "explanation">>,
    <<"what", "do", "u", "mean", "by", "that">>,
    <<"what", "does", "that", "mean", "by", "that">>, <<"huh">>,
    <<"what">> }

CODE_KEYWORDS ==
  { <<"show", "code">>, <<"code", "example">>, <<"example", "code">>,
    <<"implementation">>, <<"snippet">>, <<"write", "code">>,
    <<"give", "me", "code">>, <<"show", "me", "code">>,
    <<"how", "to", "code">>, <<"code", "it">>, <<"sample", "code">>,
    <<"code", "sample">> }

\* message.lower(), word by word
LowerWords(u) == [i \in DOMAIN Words(u) |-> Lower(Words(u)[i])]

\* keyword in message_lower
KeywordIn(kw, ws) ==
  \E i \in 0..(Len(ws) - Len(kw)) :
    \A j \in 1..Len(kw) : ws[i + j] = kw[j]

\* any(keyword in message_lower for keyword in keywords)
AnyKeywordIn(kws, u) ==
  LET message_lower == LowerWords(u)
  IN  \E kw \in kws : KeywordIn(kw, message_lower)

\* The three heuristics on every utterance of the model (and on the empty
\* message of a worker that runs no turn), computed once.
IntentTable ==
  { <<u, AnyKeywordIn(VERBOSE_KEYWORDS, u), AnyKeywordIn(SIMPLIFY_KEYWORDS, u),
      AnyKeywordIn(CODE_KEYWORDS, u)>> : u \in Utterances \cup {""} }

IntentRow(message) == CHOOSE r \in IntentTable : r[1] = message

\* agents.py:120-123
detect_verbosity(message) == IntentRow(message)[2]

\* agents.py:126-129
detect_simplify_intent(message) == IntentRow(message)[3]

\* agents.py:132-140
detect_code_request(message) == IntentRow(message)[4]

\* ------------------------------------------------------------------------
\* Backend replies: text and the JSON object it may hold
\* ------------------------------------------------------------------------

\* A JSON object as json.loads returns it.  Each member has a kind:
\* "absent" (no such key), the kind the code expects ("str", "num", "list")
\* or "other" (null, a number where a string is expected, ...).  A
\* confidence may also be "nan" (the literal NaN) or "huge" (an integer
\* literal too large for float()).  The verdict member "pass" is "true",
\* "false", "falsy" (null, 0, "") or "truthy" (any other value).
EmptyObject ==
  [mode_t |-> "absent", mode |-> "", topic_t |-> "absent", topic |-> "",
   conf_t |-> "absent", conf |-> 0, mi_t |-> "absent", mi |-> <<>>,
   pass_t |-> "absent", sugg_t |-> "absent", sugg |-> ""]

RouterObject(mk, m, tk, t, ck, c) ==
  [EmptyObject EXCEPT !.mode_t = mk, !.mode = m, !.topic_t = tk, !.topic = t,
                      !.conf_t = ck, !.conf = c]

VerdictObject(pk, sk, s) ==
  [EmptyObject EXCEPT !.pass_t = pk, !.sugg_t = sk, !.sugg = s]

\* bool(parsed): a dict is truthy when it has a member
Truthy(obj) ==
  \/ obj.mode_t /= "absent" \/ obj.topic_t /= "absent"
  \/ obj.conf_t /= "absent" \/ obj.mi_t /= "absent"
  \/ obj.pass_t /= "absent" \/ obj.sugg_t /= "absent"

\* A reply text is a sequence of tokens: "F" a ``` fence (with an optional
\* json tag and white space around it), "L" an opening brace, "R" a closing
\* brace, "P" the members of the reply's object, "J" any other text.
Reply(toks, obj) == [toks |-> toks, obj |-> obj]

\* json.loads(seg): only {} and {members} decode.
JsonValid(seg) == seg = <<"L", "R">> \/ seg = <<"L", "P", "R">>

JsonLoads(seg, obj) == IF seg = <<"L", "R">> THEN EmptyObject ELSE obj

\* str.find / str.rfind, 0-based, -1 when absent
Find(toks, c) ==
  IF \E i \in 1..Len(toks) : toks[i] = c
  THEN (CHOOSE i \in 1..Len(toks) :
          toks[i] = c /\ \A j \in 1..(i - 1) : toks[j] /= c) - 1
  ELSE -1

RFind(toks, c) ==
  IF \E i \in 1..Len(toks) : toks[i] = c
  THEN (CHOOSE i \in 1..Len(toks) :
          toks[i] = c /\ \A j \in (i + 1)..Len(toks) : toks[j] /= c) - 1
  ELSE -1

\* toks[a:b] of Python (0-based, b exclusive)
Slice(toks, a, b) == SubSeq(toks, a + 1, b)

\* re.search(r'```(?:json)?\s*(\{.*?\})\s*```', text, re.DOTALL): the
\* leftmost fence followed by a brace, closed by the nearest "}" that a
\* fence follows.  <<i, j>> are the 1-based places of that "{" and "}".
FenceMatches(toks) ==
  { p \in (1..Len(toks)) \X (1..Len(toks)) :
      /\ p[1] >= 2 /\ toks[p[1] - 1] = "F" /\ toks[p[1]] = "L"
      /\ p[2] > p[1] /\ toks[p[2]] = "R"
      /\ p[2] < Len(toks) /\ toks[p[2] + 1] = "F" }

FenceMatch(toks) ==
  CHOOSE p \in FenceMatches(toks) :
    \A q \in FenceMatches(toks) :
      p[1] < q[1] \/ (p[1] = q[1] /\ p[2] <= q[2])

ParsedNone == [ok |-> FALSE, obj |-> EmptyObject]

\* agents.py:69-79, the raw-JSON attempt of parse_router_json
RawJson(text) ==
  LET start == Find(text.toks, "L")
      end == RFind(text.toks, "R") + 1
  IN  IF start /= -1 /\ end > start /\ JsonValid(Slice(text.toks, start, end))
      THEN [ok |-> TRUE, obj |-> JsonLoads(Slice(text.toks, start, end), text.obj)]
      ELSE ParsedNone

\* agents.py:56-79: the parsed object, or None ("ok" false)
parse_router_json(text) ==
  IF FenceMatches(text.toks) /= {}
     /\ JsonValid(SubSeq(text.toks, FenceMatch(text.toks)[1], FenceMatch(text.toks)[2]))
  THEN [ok |-> TRUE,
        obj |-> JsonLoads(SubSeq(text.toks, FenceMatch(text.toks)[1],
                                 FenceMatch(text.toks)[2]), text.obj)]
  ELSE RawJson(text)

\* ------------------------------------------------------------------------
\* agents.py: validate_router_result
\* ------------------------------------------------------------------------

valid_modes == {"ANSWER", "TEACH", "QUIZ", "DEBUG", "ASK_CLARIFY", "SIMPLIFY"}

valid_topics == {"LangGraph", "Python", "LangChain", "JavaScript", "LLM",
                 "Automation", "n8n", "GoHighLevel", "Unknown"}

RouterResult(m, t, c, i) ==
  [mode |-> m, topic |-> t, confidence |-> c, missing_info |-> i]

NoRouterResult == RouterResult(None, None, -1, <<>>)

\* max(0.0, min(1.0, float(confidence))), in hundredths
Clamp(c) == IF c < 0 THEN 0 ELSE IF c > 100 THEN 100 ELSE c

\* agents.py:90-92
NormalMode(result) ==
  LET mode == IF result.mode_t = "absent" THEN "ASK_CLARIFY" ELSE Upper(result.mode)
  IN  IF mode \notin valid_modes THEN "ASK_CLARIFY" ELSE mode

\* A variant of the topic normalisation that compares without folding case.
NormalTopicExact(result) ==
  LET topic == IF result.topic_t = "absent" THEN "Unknown" ELSE result.topic
  IN  IF topic \in valid_topics THEN topic ELSE "Unknown"

\* agents.py:94-98
NormalTopic(result) ==
  LET topic == IF result.topic_t = "absent" THEN "Unknown" ELSE result.topic
      topic_lower == Lower(topic)
  IN  IF \E t \in valid_topics : Lower(t) = topic_lower
      THEN CHOOSE t \in valid_topics : Lower(t) = topic_lower
      ELSE "Unknown"

\* agents.py:100-103; NaN compares false with everything, so min(1.0, nan)
\* keeps 1.0
NormalConfidence(result) ==
  CASE result.conf_t = "absent" -> 50
    [] result.conf_t = "other" -> 50
    [] result.conf_t = "nan" -> 100
    [] OTHER -> Clamp(result.conf)

\* agents.py:105-107
NormalMissingInfo(result) == IF result.mi_t = "list" THEN result.mi ELSE <<>>

\* The exception validate_router_result ends with, "" when it returns:
\* .upper() and .lower() exist on strings only (agents.py:90, 96), and
\* float() rejects an integer beyond the float range (agents.py:103).
ValidateError(result) ==
  IF result.mode_t = "other" THEN "AttributeError"
  ELSE IF result.topic_t = "other" THEN "AttributeError"
  ELSE IF result.conf_t = "huge" THEN "OverflowError"
  ELSE ""

\* agents.py:82-117, when it returns
validate_router_result(result) ==
  RouterResult(NormalMode(result), NormalTopic(result),
               NormalConfidence(result), NormalMissingInfo(result))

\* ------------------------------------------------------------------------
\* agents.py: router_node
\* ------------------------------------------------------------------------

\* A backend call either raises or returns a reply text.
BackendRaises == [raises |-> TRUE, content |-> Reply(<<>>, EmptyObject)]

BackendReturns(text) == [raises |-> FALSE, content |-> text]

\* A variant of RULE 1 that asks for an earlier question instead of a topic.
SimplifyFastPathOnQuestion(state) ==
  detect_simplify_intent(state.user_message) /\ state.last_subject_question /= None

\* agents.py:330, RULE 1
SimplifyFastPath(state) ==
  detect_simplify_intent(state.user_message) /\ state.current_subject /= None

\* A variant of the fast-path decision that is less than sure.
FastPathResultUnsure(current_subject) ==
  RouterResult("SIMPLIFY",
               IF current_subject /= GENERAL
               THEN Capitalize(current_subject) ELSE "Unknown",
               60, <<>>)

\* agents.py:331-337
FastPathResult(current_subject) ==
  RouterResult("SIMPLIFY",
               IF current_subject /= GENERAL
               THEN Capitalize(current_subject) ELSE "Unknown",
               100, <<>>)

\* agents.py:384
ContextTopic(current_subject) ==
  IF current_subject /= None THEN current_subject ELSE "None"

\* A variant of the fallback that forgets the session's topic.
ParseFallbackForgetsTopic(current_subject) ==
  RouterResult("ASK_CLARIFY", "Unknown", 30, <<"Could not parse routing decision">>)

\* agents.py:399-405
ParseFallback(current_subject) ==
  RouterResult("ASK_CLARIFY",
               IF current_subject /= None
               THEN ContextTopic(current_subject) ELSE "Unknown",
               30, <<"Could not parse routing decision">>)

\* A variant of RULE 2 whose threshold is inclusive.
ClarifyGateInclusive(confidence, attempts_clarify) ==
  confidence <= 65 /\ attempts_clarify < 2

\* agents.py:410, RULE 2
ClarifyGate(confidence, attempts_clarify) ==
  confidence < 65 /\ attempts_clarify < 2

\* agents.py:409-411
GatedMode(router_result, attempts_clarify) ==
  IF ClarifyGate(router_result.confidence, attempts_clarify)
  THEN "ASK_CLARIFY" ELSE router_result.mode

\* agents.py:414-426
TopicToSubject(topic) ==
  LET topic_lower == Lower(topic)
  IN  CASE topic_lower = "langgraph" -> "langgraph"
        [] topic_lower = "python" -> "python"
        [] topic_lower = "langchain" -> "langchain"
        [] topic_lower = "javascript" -> "javascript"
        [] topic_lower = "llm" -> "llm"
        [] topic_lower = "automation" -> "automation"
        [] topic_lower = "n8n" -> "n8n"
        [] topic_lower = "gohighlevel" -> "gohighlevel"
        [] topic_lower = "unknown" -> GENERAL
        [] OTHER -> GENERAL

\* agents.py:429
StyleOf(mode) == IF mode = "SIMPLIFY" THEN "simple" ELSE "normal"

\* A variant that takes the utterance for the last question whatever the
\* mode, as long as the topic is not general.
NewLastQuestionOnAnyMode(last_question, subject, mode, user_message) ==
  IF subject /= GENERAL THEN user_message ELSE last_question

\* agents.py:432-434
NewLastQuestion(last_question, subject, mode, user_message) ==
  IF subject /= GENERAL /\ mode \notin {"SIMPLIFY", "ASK_CLARIFY"}
  THEN user_message ELSE last_question

\* A variant of the counter that restarts at 1 on every clarification.
NewAttemptsRestart(mode, attempts_clarify) ==
  IF mode = "ASK_CLARIFY" THEN 1 ELSE 0

\* agents.py:437
NewAttempts(mode, attempts_clarify) ==
  IF mode = "ASK_CLARIFY" THEN attempts_clarify + 1 ELSE 0

\* What a node hands back: the graph state after its update, the exception
\* it ended with ("" when it returned), and the backend calls it made.
NodeReturn(state, calls) == [error |-> "", state |-> state, calls |-> calls]

NodeRaise(state, error, calls) == [error |-> error, state |-> state, calls |-> calls]

\* agents.py:338-344
RouterFastReturn(state) ==
  NodeReturn([state EXCEPT
                !.current_subject = state.current_subject,
                !.style = "simple",
                !.router_result = FastPathResult(state.current_subject),
                !.attempts_clarify = 0],
             <<>>)

\* A variant of the router that keeps the session's topic, when it has one,
\* on a turn that ends in ASK_CLARIFY.
RouterDecideClarifyKeepsTopic(state, decision) ==
  LET router_result == [decision EXCEPT
                          !.mode = GatedMode(decision, state.attempts_clarify)]
      subject == IF router_result.mode = "ASK_CLARIFY" /\ state.current_subject /= None
                 THEN state.current_subject
                 ELSE TopicToSubject(router_result.topic)
  IN  NodeReturn([state EXCEPT
                    !.current_subject = subject,
                    !.style = StyleOf(router_result.mode),
                    !.router_result = router_result,
                    !.last_subject_question =
                       NewLastQuestion(state.last_subject_question, subject,
                                       router_result.mode, state.user_message),
                    !.attempts_clarify =
                       NewAttempts(router_result.mode, state.attempts_clarify)],
                 <<"classify">>)

\* A variant of the router that takes the style from the decision as the
\* classifier gave it, before the confidence gate.
RouterDecideStyleBeforeGate(state, decision) ==
  LET router_result == [decision EXCEPT
                          !.mode = GatedMode(decision, state.attempts_clarify)]
      subject == TopicToSubject(router_result.topic)
  IN  NodeReturn([state EXCEPT
                    !.current_subject = subject,
                    !.style = StyleOf(decision.mode),
                    !.router_result = router_result,
                    !.last_subject_question =
                       NewLastQuestion(state.last_subject_question, subject,
                                       router_result.mode, state.user_message),
                    !.attempts_clarify =
                       NewAttempts(router_result.mode, state.attempts_clarify)],
                 <<"classify">>)

\* A variant of the router with a memory of its own: once the conversation
\* holds two exchanges it teaches whatever the decision says.
RouterDecideWithHistory(state, decision) ==
  LET router_result == [decision EXCEPT
                          !.mode = IF Len(state.messages) >= 5 THEN "TEACH"
                                   ELSE GatedMode(decision, state.attempts_clarify)]
      subject == TopicToSubject(router_result.topic)
  IN  NodeReturn([state EXCEPT
                    !.current_subject = subject,
                    !.style = StyleOf(router_result.mode),
                    !.router_result = router_result,
                    !.last_subject_question =
                       NewLastQuestion(state.last_subject_question, subject,
                                       router_result.mode, state.user_message),
                    !.attempts_clarify =
                       NewAttempts(router_result.mode, state.attempts_clarify)],
                 <<"classify">>)

\* agents.py:409-445, from the parsed-or-fallback decision on
RouterDecide(state, decision) ==
  LET router_result == [decision EXCEPT
                          !.mode = GatedMode(decision, state.attempts_clarify)]
      subject == TopicToSubject(router_result.topic)
  IN  NodeReturn([state EXCEPT
                    !.current_subject = subject,
                    !.style = StyleOf(router_result.mode),
                    !.router_result = router_result,
                    !.last_subject_question =
                       NewLastQuestion(state.last_subject_question, subject,
                                       router_result.mode, state.user_message),
                    !.attempts_clarify =
                       NewAttempts(router_result.mode, state.attempts_clarify)],
                 <<"classify">>)

\* agents.py:302-445; b is the outcome of llm.invoke at line 386
router_node(state, b) ==
  IF SimplifyFastPath(state) THEN RouterFastReturn(state)
  ELSE IF b.raises THEN NodeRaise(state, "BackendError", <<"classify">>)
  ELSE LET parsed == parse_router_json(b.content)
       IN  IF ~parsed.ok
           THEN RouterDecide(state, ParseFallback(state.current_subject))
           ELSE IF ValidateError(parsed.obj) /= ""
           THEN NodeRaise(state, ValidateError(parsed.obj), <<"classify">>)
           ELSE RouterDecide(state, validate_router_result(parsed.obj))

\* ------------------------------------------------------------------------
\* state.py: StudyState, and the messages of a conversation
\* ------------------------------------------------------------------------

\* The length of each text of the model (len(content)).
TextLen(text) ==
  CASE text = "" -> 0
    [] text = "Which topic do you mean?" -> 24
    [] text = "reply of 99 chars" -> 99
    [] text = "reply of 100 chars" -> 100
    [] text = "reply of 1200 chars" -> 1200
    [] text = "reply of 1201 chars" -> 1201
    [] text = "revised reply of 400 chars" -> 400
    [] text = "concise reply of 300 chars" -> 300
    [] OTHER -> 40

HumanMessage(content) == [type |-> "human", content |-> content, tool_calls |-> <<>>]

AIMessage(content, tool_calls) ==
  [type |-> "ai", content |-> content, tool_calls |-> tool_calls]

ToolMessage(content) == [type |-> "tool", content |-> content, tool_calls |-> <<>>]

\* A variant of the reducer that takes an assistant message arriving on top
\* of an assistant message as a new version of it.
add_messages_merging(left, right) ==
  IF left /= <<>> /\ right /= <<>>
     /\ left[Len(left)].type = "ai" /\ right[1].type = "ai"
  THEN SubSeq(left, 1, Len(left) - 1) \o right
  ELSE left \o right

\* state.py:33, the add_messages reducer.  Every message a node returns is
\* new (it carries no id of an earlier message), so the reducer appends.
add_messages(left, right) == left \o right

Last(seq) == seq[Len(seq)]

\* ------------------------------------------------------------------------
\* agents.py: assistant_node
\* ------------------------------------------------------------------------

\* A variant of the verbose flag that stays up once any utterance of the
\* conversation has asked for detail.
VerboseLatched(state) ==
  \E i \in DOMAIN state.messages :
    /\ state.messages[i].type = "human"
    /\ detect_verbosity(state.messages[i].content)

\* agents.py:463: the verbose flag of the turn
VerboseRequested(state) == detect_verbosity(state.user_message)

\* agents.py:464: the code flag of the turn
CodeRequested(state) == detect_code_request(state.user_message)

\* A variant of the prompt that appends the overrides in simple mode too.
SystemPromptOverridesAlways(state) ==
  LET simple_mode == (state.style = "simple")
  IN  (IF simple_mode
       THEN <<"SIMPLE_MODE_PROMPT">>
            \o (IF state.last_subject_question /= None
                   /\ detect_simplify_intent(state.user_message)
                THEN <<"previous question">> ELSE <<>>)
       ELSE <<"CONCISE_RULES">>)
      \o (IF VerboseRequested(state) THEN <<"VERBOSE MODE">> ELSE <<>>)
      \o (IF CodeRequested(state) THEN <<"CODE REQUESTED">> ELSE <<>>)
      \o <<"SUBJECT_PROMPTS", "tools">>

\* agents.py:466-509: the parts of the system prompt, in order
SystemPrompt(state) ==
  LET simple_mode == (state.style = "simple")
      verbose_mode == VerboseRequested(state)
      code_requested == CodeRequested(state)
  IN  (IF simple_mode
       THEN <<"SIMPLE_MODE_PROMPT">>
            \o (IF state.last_subject_question /= None
                   /\ detect_simplify_intent(state.user_message)
                THEN <<"previous question">> ELSE <<>>)
       ELSE <<"CONCISE_RULES">>)
      \o (IF verbose_mode /\ ~simple_mode THEN <<"VERBOSE MODE">> ELSE <<>>)
      \o (IF code_requested /\ ~simple_mode THEN <<"CODE REQUESTED">> ELSE <<>>)
      \o <<"SUBJECT_PROMPTS", "tools">>

\* agents.py:448-528; b is the outcome of llm_with_tools.invoke at line 518
assistant_node(state, b) ==
  IF b.raises THEN NodeRaise(state, "BackendError", <<"generate">>)
  ELSE NodeReturn([state EXCEPT
                     !.messages = add_messages(state.messages, <<b.message>>),
                     !.verbose_mode = VerboseRequested(state),
                     !.last_assistant_answer = b.message.content],
                  <<"generate">>)

\* A variant of the routing after the assistant that looks at the verifier
\* flag before the pending tool calls.
should_continue_flag_first(state) ==
  IF ~state.verifier_passed THEN "verifier"
  ELSE IF Last(state.messages).tool_calls /= <<>> THEN "tools"
  ELSE "end"

\* A variant of the routing after the assistant that ends the turn on a
\* short reply.
should_continue_short_ends(state) ==
  IF Last(state.messages).tool_calls /= <<>> THEN "tools"
  ELSE IF ~state.verifier_passed /\ TextLen(Last(state.messages).content) >= 100
  THEN "verifier"
  ELSE "end"

\* agents.py:541-557
should_continue(state) ==
  IF Last(state.messages).tool_calls /= <<>> THEN "tools"
  ELSE IF ~state.verifier_passed THEN "verifier"
  ELSE "end"

\* A text as the sequence of its characters, for the contents, tags and
\* queries of notes and solutions.
LowerChar(c) ==
  CASE c = "A" -> "a"
    [] c = "B" -> "b"
    [] c = "T" -> "t"
    [] OTHER -> c

\* str.lower on a text
LowerText(s) == [i \in DOMAIN s |-> LowerChar(s[i])]

\* q in s
SubstringOf(q, s) ==
  \E i \in 0..(Len(s) - Len(q)) : SubSeq(s, i + 1, i + Len(q)) = q

\* storage.py:11-18: the storage as constructed; made counts the items
\* created, from which the model takes the fresh id of the next one
\* (uuid.uuid4 at storage.py:25, 61).
StudyStorage ==
  [notes |-> [s \in Subject |-> <<>>], solutions |-> [s \in Subject |-> <<>>],
   history |-> [session_id \in {} |-> [s \in Subject |-> <<>>]],
   made |-> 0]

\* storage.py:22-32
add_note(st, subject, content, tags) ==
  LET note == [id |-> st.made + 1, subject |-> subject, content |-> content,
               tags |-> tags]
  IN  [storage |-> [st EXCEPT !.notes[subject] = Append(st.notes[subject], note),
                              !.made = st.made + 1],
       item |-> note]

\* storage.py:34-36
get_notes_of(st, subject) == st.notes[subject]

\* A variant of the search that compares the query as it was typed.
search_notes_of_as_typed(st, subject, query) ==
  SelectSeq(st.notes[subject],
            LAMBDA note :
              \/ SubstringOf(query, LowerText(note.content))
              \/ \E t \in DOMAIN note.tags :
                   SubstringOf(query, LowerText(note.tags[t])))

\* storage.py:38-47
search_notes_of(st, subject, query) ==
  LET query_lower == LowerText(query)
  IN  SelectSeq(st.notes[subject],
                LAMBDA note :
                  \/ SubstringOf(query_lower, LowerText(note.content))
                  \/ \E t \in DOMAIN note.tags :
                       SubstringOf(query_lower, LowerText(note.tags[t])))

\* storage.py:49-55: the note of this id leaves the subject's list; the
\* result says whether there was one
delete_note(st, subject, note_id) ==
  LET found == \E i \in DOMAIN st.notes[subject] : st.notes[subject][i].id = note_id
  IN  [storage |-> [st EXCEPT !.notes[subject] =
                      SelectSeq(st.notes[subject], LAMBDA note : note.id /= note_id)],
       found |-> found]

\* storage.py:100-112: the session gets an empty list per subject when it
\* has none, and the message goes to the end of its subject's list
add_message(st, session_id, subject, role, content) ==
  LET history == [sid \in DOMAIN st.history \cup {session_id} |->
                    IF sid \in DOMAIN st.history THEN st.history[sid]
                    ELSE [s \in Subject |-> <<>>]]
      message == [role |-> role, content |-> content, subject |-> subject]
  IN  [storage |-> [st EXCEPT !.history =
                      [history EXCEPT ![session_id][subject] = Append(@, message)]],
       item |-> message]

\* list[start:] of Python: a negative start counts from the end, and a
\* start beyond either end stops at that end
SliceFrom(list, start) ==
  LET n == Len(list)
      first == IF start < 0
               THEN (IF n + start > 0 THEN n + start ELSE 0)
               ELSE (IF start < n THEN start ELSE n)
  IN  SubSeq(list, first + 1, n)

\* storage.py:114-118: [] for a session without history, else
\* history[session_id][subject][-limit:]
get_history_of(st, session_id, subject, limit) ==
  IF session_id \notin DOMAIN st.history
  THEN <<>>
  ELSE SliceFrom(st.history[session_id][subject], 0 - limit)

\* storage.py:58-69
add_solution(st, subject, problem, solution, tags) ==
  LET sol == [id |-> st.made + 1, subject |-> subject, problem |-> problem,
              solution |-> solution, tags |-> tags]
  IN  [storage |-> [st EXCEPT !.solutions[subject] = Append(st.solutions[subject], sol),
                              !.made = st.made + 1],
       item |-> sol]

\* storage.py:71-73
get_solutions_of(st, subject) == st.solutions[subject]

\* storage.py:75-86
search_solutions_of(st, subject, query) ==
  LET query_lower == LowerText(query)
  IN  SelectSeq(st.solutions[subject],
                LAMBDA sol :
                  \/ SubstringOf(query_lower, LowerText(sol.problem))
                  \/ SubstringOf(query_lower, LowerText(sol.solution))
                  \/ \E t \in DOMAIN sol.tags :
                       SubstringOf(query_lower, LowerText(sol.tags[t])))

\* A variant of the subject lookup that does not fold the case.
SubjectOfExact(subject) == IF subject \in Subject THEN subject ELSE GENERAL

\* tools.py:39-42 (and 59-62, 88-91, 120-123, 139-142, 167-170):
\* Subject(subject.lower()), GENERAL on ValueError
SubjectOf(subject) ==
  IF Lower(subject) \in Subject THEN Lower(subject) ELSE GENERAL

\* What a tool returns: the text's kind, the subject string and the query it
\* quotes, and the items it lists.
ToolText(kind, subject, query, items) ==
  [kind |-> kind, subject |-> subject, query |-> query, items |-> items]

\* What a tool run comes to: the storage it leaves and the text it returns.
ToolDone(st, result) == [storage |-> st, result |-> result]

\* tools.py:26-45
save_note(st, content, subject, tags) ==
  LET added == add_note(st, SubjectOf(subject), content, tags)
  IN  ToolDone(added.storage,
               ToolText("Note saved successfully!", "", <<>>, <<added.item>>))

\* tools.py:48-73
get_notes(st, subject) ==
  LET notes == get_notes_of(st, SubjectOf(subject))
  IN  ToolDone(st, IF notes = <<>> THEN ToolText("No notes found for", subject, <<>>, <<>>)
                   ELSE ToolText("Notes for", subject, <<>>, notes))

\* tools.py:76-101
search_notes(st, query, subject) ==
  LET notes == search_notes_of(st, SubjectOf(subject), query)
  IN  ToolDone(st, IF notes = <<>> THEN ToolText("No notes matching", subject, query, <<>>)
                   ELSE ToolText("Found notes matching", "", query, notes))

\* tools.py:106-125
save_solution(st, problem, solution, subject, tags) ==
  LET added == add_solution(st, SubjectOf(subject), problem, solution, tags)
  IN  ToolDone(added.storage,
               ToolText("Solution saved successfully!", "", <<>>, <<added.item>>))

\* tools.py:128-151
get_solutions(st, subject) ==
  LET solutions == get_solutions_of(st, SubjectOf(subject))
  IN  ToolDone(st, IF solutions = <<>>
                   THEN ToolText("No solutions found for", subject, <<>>, <<>>)
                   ELSE ToolText("Solutions for", subject, <<>>, solutions))

\* tools.py:154-179
search_solutions(st, query, subject) ==
  LET solutions == search_solutions_of(st, SubjectOf(subject), query)
  IN  ToolDone(st, IF solutions = <<>>
                   THEN ToolText("No solutions matching", subject, query, <<>>)
                   ELSE ToolText("Found solutions matching", "", query, solutions))

\* tools.py:14-21: the search client, None when no API key is configured
get_tavily_client(api_key) == IF api_key /= None THEN "client" ELSE None

\* A variant of web_search without the check for a missing client: the call
\* on None fails inside the try.
web_search_unchecked(api_key, search) ==
  IF get_tavily_client(api_key) = None
  THEN "Web search failed: 'NoneType' object has no attribute 'search'"
  ELSE IF search.raises THEN "Web search failed: " \o search.error
  ELSE IF search.results = 0 THEN "No results found for 'query'."
  ELSE "Web search results for 'query':"

\* tools.py:186-218; search is the outcome of client.search at line 201
web_search(api_key, search) ==
  IF get_tavily_client(api_key) = None
  THEN "Web search is unavailable. Please set the TAVILY_API_KEY environment variable."
  ELSE IF search.raises THEN "Web search failed: " \o search.error
  ELSE IF search.results = 0 THEN "No results found for 'query'."
  ELSE "Web search results for 'query':"

\* graph.py:41, ToolNode(all_tools): one tool message per pending call, in
\* the order of the calls; results[i] is what call i returned (a tool's
\* exception is turned into its message).
tool_node(state, results) ==
  NodeReturn([state EXCEPT
                !.messages = add_messages(state.messages,
                                [i \in DOMAIN results |-> ToolMessage(results[i])])],
             <<"tools">>)

\* ------------------------------------------------------------------------
\* agents.py: verifier_node, revise_node
\* ------------------------------------------------------------------------

\* A variant of the skips that takes a reply of the minimum length for short.
VerifierSkipsAtMinimum(state) ==
  \/ state.messages = <<>>
  \/ Last(state.messages).tool_calls /= <<>>
  \/ state.style = "simple"
  \/ TextLen(Last(state.messages).content) <= 100
  \/ state.current_subject /= LANGGRAPH

\* agents.py:577-597: the checks that skip the quality call
VerifierSkips(state) ==
  \/ state.messages = <<>>
  \/ Last(state.messages).tool_calls /= <<>>
  \/ state.style = "simple"
  \/ TextLen(Last(state.messages).content) < 100
  \/ state.current_subject /= LANGGRAPH

\* A variant of the verdict test whose default for a missing pass is False.
VerdictFailsWithoutPass(parsed) ==
  parsed.ok /\ Truthy(parsed.obj) /\ parsed.obj.pass_t \in {"false", "falsy", "absent"}

\* agents.py:635: parsed and not parsed.get("pass", True)
VerdictFails(parsed) ==
  parsed.ok /\ Truthy(parsed.obj) /\ parsed.obj.pass_t \in {"false", "falsy"}

\* agents.py:638
Suggestion(obj) ==
  IF obj.sugg_t = "absent"
  THEN "Be more specific about LangGraph mechanisms." ELSE obj.sugg

\* agents.py:560-644; b is the outcome of llm.invoke at line 627
verifier_node(state, b) ==
  IF VerifierSkips(state)
  THEN NodeReturn([state EXCEPT !.verifier_passed = TRUE], <<>>)
  ELSE IF ~b.raises /\ VerdictFails(parse_router_json(b.content))
  THEN NodeReturn([state EXCEPT
                     !.verifier_passed = FALSE,
                     !.verifier_feedback =
                        Suggestion(parse_router_json(b.content).obj)],
                  <<"verify">>)
  ELSE NodeReturn([state EXCEPT !.verifier_passed = TRUE], <<"verify">>)

\* A variant of the routing after the verifier that revises every reply the
\* verifier has seen.
should_revise_always(state) == "revise"

\* agents.py:700-704
should_revise(state) == IF ~state.verifier_passed THEN "revise" ELSE "end"

\* A variant of the revision that leaves the last answer as the assistant
\* set it.
revise_node_keeps_answer(state, b) ==
  IF state.messages = <<>>
  THEN NodeReturn([state EXCEPT !.verifier_passed = TRUE], <<>>)
  ELSE IF b.raises THEN NodeRaise(state, "BackendError", <<"revise">>)
  ELSE NodeReturn([state EXCEPT
                     !.messages = add_messages(state.messages,
                                               <<AIMessage(b.text, <<>>)>>),
                     !.verifier_passed = TRUE],
                  <<"revise">>)

\* agents.py:647-697; b is the outcome of llm.invoke at line 682
revise_node(state, b) ==
  IF state.messages = <<>>
  THEN NodeReturn([state EXCEPT !.verifier_passed = TRUE], <<>>)
  ELSE IF b.raises THEN NodeRaise(state, "BackendError", <<"revise">>)
  ELSE NodeReturn([state EXCEPT
                     !.messages = add_messages(state.messages,
                                               <<AIMessage(b.text, <<>>)>>),
                     !.verifier_passed = TRUE,
                     !.last_assistant_answer = b.text],
                  <<"revise">>)

\* ------------------------------------------------------------------------
\* graph.py: the session store and chat()
\* ------------------------------------------------------------------------

VARIABLES
  store,    \* _session_store: session id -> the context kept between turns
  turn,     \* per worker: the turn it is running (chat()'s locals)
  nturns,   \* turns submitted so far
  storage,  \* storage.py: the global StudyStorage instance
  called    \* the last note or solution tool run, with its arguments and
            \* result, and the ids of the notes deleted so far

vars == <<store, turn, nturns, storage, called>>

Workers == {"w1"}

SessionIds == {"s1"}

\* A variant of the defaults in which a new session has used up one
\* clarification.
NewSessionOneAttempt ==
  [messages |-> <<>>, current_subject |-> None, last_subject_question |-> None,
   last_assistant_answer |-> None, style |-> "normal", attempts_clarify |-> 1]

\* graph.py:103-111, the context of a session seen for the first time
NewSession ==
  [messages |-> <<>>, current_subject |-> None, last_subject_question |-> None,
   last_assistant_answer |-> None, style |-> "normal", attempts_clarify |-> 0]

\* graph.py:103
SessionState(sid) == IF sid \in DOMAIN store THEN store[sid] ELSE NewSession

\* A variant of the initial state that does not hand the stored topic on.
InitialStateWithoutTopic(session_state, message) ==
  [messages |-> add_messages(<<>>, session_state.messages \o <<HumanMessage(message)>>),
   current_subject |-> None,
   user_message |-> message,
   verbose_mode |-> FALSE,
   style |-> "normal",
   last_subject_question |-> session_state.last_subject_question,
   last_assistant_answer |-> session_state.last_assistant_answer,
   attempts_clarify |-> session_state.attempts_clarify,
   router_result |-> NoRouterResult,
   verifier_passed |-> FALSE,
   verifier_feedback |-> None]

\* graph.py:114-129
InitialState(session_state, message) ==
  [messages |-> add_messages(<<>>, session_state.messages \o <<HumanMessage(message)>>),
   current_subject |-> session_state.current_subject,
   user_message |-> message,
   verbose_mode |-> FALSE,
   style |-> "normal",
   last_subject_question |-> session_state.last_subject_question,
   last_assistant_answer |-> session_state.last_assistant_answer,
   attempts_clarify |-> session_state.attempts_clarify,
   router_result |-> NoRouterResult,
   verifier_passed |-> FALSE,
   verifier_feedback |-> None]

\* A variant of the store write that leaves the counter out of the record.
NewContextWithoutCounter(result) ==
  [messages |-> result.messages,
   current_subject |-> result.current_subject,
   last_subject_question |-> result.last_subject_question,
   last_assistant_answer |-> result.last_assistant_answer,
   style |-> result.style,
   attempts_clarify |-> 0]

\* graph.py:146-154
NewContext(result) ==
  [messages |-> result.messages,
   current_subject |-> result.current_subject,
   last_subject_question |-> result.last_subject_question,
   last_assistant_answer |-> result.last_assistant_answer,
   style |-> result.style,
   attempts_clarify |-> result.attempts_clarify]

\* A variant of the rewrite condition that takes in a reply at the limit.
NeedsRewriteAtLimit(result) ==
  /\ ~result.verbose_mode
  /\ result.style /= "simple"
  /\ TextLen(Last(result.messages).content) >= 1200

\* graph.py:141
NeedsRewrite(result) ==
  /\ ~result.verbose_mode
  /\ result.style /= "simple"
  /\ TextLen(Last(result.messages).content) > 1200

\* A variant of chat() that writes the store before it rewrites the reply.
StoreWrittenFirst(result, b) == TRUE

\* graph.py:141-146: the store write comes after the rewrite, so it is
\* reached only when the rewrite, if one is due, has returned.
StoreWritten(result, b) == ~(NeedsRewrite(result) /\ b.raises)

\* A variant of the store write that assigns the context under every key.
StoreWithEveryKey(sid, context) ==
  [s \in DOMAIN store \cup {sid} |-> context]

\* graph.py:146: _session_store[session_id] = {...}
StoreWith(sid, context) ==
  [s \in DOMAIN store \cup {sid} |-> IF s = sid THEN context ELSE store[s]]

\* A variant of the return value that hands back the final message as it is.
ReturnedUncondensed(response_content, result) ==
  [response |-> Last(result.messages).content,
   detected_subject |-> result.current_subject,
   style |-> result.style, router_result |-> result.router_result]

\* graph.py:156-162
Returned(response_content, result) ==
  [response |-> response_content, detected_subject |-> result.current_subject,
   style |-> result.style, router_result |-> result.router_result]

NoReturn == [response |-> None, detected_subject |-> None, style |-> None,
             router_result |-> NoRouterResult]

\* A worker's record: pc is the node about to run ("idle" before the first
\* turn, "END" when the graph has finished, "returned" and "raised" when
\* chat() has returned or raised); trace lists the nodes run in this turn,
\* calls the backend calls and tool rounds made, each with its outcome,
\* rounds the tool rounds, prompt the parts of the system prompt the
\* assistant last sent.
IdleTurn ==
  [pc |-> "idle", sid |-> None, session_state |-> NewSession,
   state |-> InitialState(NewSession, ""), trace |-> <<>>, calls |-> <<>>,
   error |-> "", rounds |-> 0, returned |-> NoReturn, prompt |-> <<>>]

\* A call that is not about a session's history.
NoArgs == [session_id |-> None, limit |-> 0, known |-> FALSE]

\* No note or solution tool has run.
NoCall ==
  [name |-> None, subject |-> None, result |-> ToolText(None, None, <<>>, <<>>),
   removed |-> {}, args |-> NoArgs]

Init ==
  /\ store = [s \in {} |-> NewSession]
  /\ turn = [w \in Workers |-> IdleTurn]
  /\ nturns = 0
  /\ storage = StudyStorage
  /\ called = NoCall

\* A backend call and what came of it.
Call(name, b) == [name |-> name, outcome |-> b]

\* A variant of the edges that sends a revised reply back to the verifier.
EdgeReverify(node) ==
  CASE node = "router" -> "assistant"
    [] node = "tools" -> "assistant"
    [] node = "revise" -> "verifier"

\* A variant of the edges that ends the turn after the tools.
EdgeToolsEnd(node) ==
  CASE node = "router" -> "assistant"
    [] node = "tools" -> "END"
    [] node = "revise" -> "END"

\* graph.py:50, 64, 77: the unconditional edges
Edge(node) ==
  CASE node = "router" -> "assistant"
    [] node = "tools" -> "assistant"
    [] node = "revise" -> "END"

\* The record of worker w after a node, given the backend outcome b, handed
\* back r; next is the node the graph's edges lead to.
AfterNode(w, node, b, r, next) ==
  [turn[w] EXCEPT
     !.state = r.state,
     !.trace = Append(turn[w].trace, node),
     !.calls = turn[w].calls \o [i \in DOMAIN r.calls |-> Call(r.calls[i], b)],
     !.error = r.error,
     !.pc = IF r.error /= "" THEN "raised" ELSE next]

\* graph.py:132: study_graph.invoke(initial_state) passes no config, so the
\* graph runs under the library's default recursion limit: at most this many
\* node runs in one invocation.
RecursionLimit == 25

\* The graph may run one more node.
WithinLimit(w) == Len(turn[w].trace) < RecursionLimit

\* graph.py:132: a node is due but the limit is used up, and invoke raises
\* GraphRecursionError out of chat(); the store is not written.
RecursionStop(w) ==
  /\ turn[w].pc \in {"router", "assistant", "tools", "verifier", "revise"}
  /\ ~WithinLimit(w)
  /\ turn' = [turn EXCEPT ![w] =
                [turn[w] EXCEPT !.pc = "raised", !.error = "GraphRecursionError"]]
  /\ UNCHANGED <<store, nturns, storage, called>>

\* graph.py:89-129: chat(message, sid) reads the store and enters the graph
StartTurn(w, sid, message, maxTurns) ==
  /\ turn[w].pc \in {"idle", "returned", "raised"}
  /\ nturns < maxTurns
  /\ nturns' = nturns + 1
  /\ turn' = [turn EXCEPT ![w] =
                [IdleTurn EXCEPT
                   !.pc = "router", !.sid = sid,
                   !.session_state = SessionState(sid),
                   !.state = InitialState(SessionState(sid), message)]]
  /\ UNCHANGED <<store, storage, called>>

\* graph.py:39, 50: router, then always assistant
RouterStep(w, b) ==
  /\ turn[w].pc = "router"
  /\ WithinLimit(w)
  /\ turn' = [turn EXCEPT ![w] =
                AfterNode(w, "router", b, router_node(turn[w].state, b), Edge("router"))]
  /\ UNCHANGED <<store, nturns, storage, called>>

\* graph.py:40, 53-61: assistant, then tools, verifier or END
AssistantRuns(w, b) ==
  /\ turn[w].pc = "assistant"
  /\ WithinLimit(w)
  /\ LET r == assistant_node(turn[w].state, b)
         next == should_continue(r.state)
     IN  turn' = [turn EXCEPT ![w] =
                    [AfterNode(w, "assistant", b, r,
                               CASE next = "tools" -> "tools"
                                 [] next = "verifier" -> "verifier"
                                 [] OTHER -> "END")
                       EXCEPT !.prompt = SystemPrompt(turn[w].state)]]
  /\ UNCHANGED <<store, nturns, storage, called>>

\* The assistant's run in a turn whose replies ask for tools in at most
\* MaxToolRounds rounds.
AssistantStep(w, b) ==
  /\ b.raises \/ b.message.tool_calls = <<>> \/ turn[w].rounds < MaxToolRounds
  /\ AssistantRuns(w, b)

\* What a round of tool calls came to: the tool node turns a tool's exception
\* into the text of its message, so the round itself does not raise.
ToolsReturn(results) == [raises |-> FALSE, results |-> results]

\* graph.py:41, 64: tools, then always assistant; b is what the round came to
ToolsRun(w, b) ==
  /\ turn[w].pc = "tools"
  /\ WithinLimit(w)
  /\ Len(b.results) = Len(Last(turn[w].state.messages).tool_calls)
  /\ turn' = [turn EXCEPT ![w] =
                [AfterNode(w, "tools", b, tool_node(turn[w].state, b.results),
                           Edge("tools"))
                   EXCEPT !.rounds = turn[w].rounds + 1]]
  /\ UNCHANGED <<store, nturns, storage, called>>

ToolsStep(w, results) == ToolsRun(w, ToolsReturn(results))

\* A round of one web_search call, with the API key of the process and the
\* outcome of the client's search.
WebSearchReturn(api_key, search) ==
  [raises |-> FALSE, results |-> <<web_search(api_key, search)>>,
   api_key |-> api_key, search |-> search]

WebSearchStep(w, api_key, search) ==
  /\ Last(turn[w].state.messages).tool_calls = <<"web_search">>
  /\ ToolsRun(w, WebSearchReturn(api_key, search))

\* graph.py:42, 67-74: verifier, then revise or END
VerifierStep(w, b) ==
  /\ turn[w].pc = "verifier"
  /\ WithinLimit(w)
  /\ LET r == verifier_node(turn[w].state, b)
     IN  turn' = [turn EXCEPT ![w] =
                    AfterNode(w, "verifier", b, r,
                              IF should_revise(r.state) = "revise"
                              THEN "revise" ELSE "END")]
  /\ UNCHANGED <<store, nturns, storage, called>>

\* graph.py:43, 77: revise, then always END
ReviseStep(w, b) ==
  /\ turn[w].pc = "revise"
  /\ WithinLimit(w)
  /\ turn' = [turn EXCEPT ![w] =
                AfterNode(w, "revise", b, revise_node(turn[w].state, b), Edge("revise"))]
  /\ UNCHANGED <<store, nturns, storage, called>>

\* graph.py:134-162: the rewrite of a long reply, the store write, the return;
\* b is the outcome of the call in rewrite_to_concise (agents.py:203)
FinishTurn(w, b) ==
  /\ turn[w].pc = "END"
  /\ LET result == turn[w].state
         sid == turn[w].sid
     IN  IF NeedsRewrite(result) /\ b.raises
         THEN /\ turn' = [turn EXCEPT ![w] =
                            [turn[w] EXCEPT !.pc = "raised", !.error = "BackendError",
                                            !.calls = Append(turn[w].calls, Call("condense", b))]]
              /\ store' = IF StoreWritten(result, b)
                          THEN StoreWith(sid, NewContext(result)) ELSE store
         ELSE /\ store' = StoreWith(sid, NewContext(result))
              /\ turn' = [turn EXCEPT ![w] =
                            [turn[w] EXCEPT
                               !.pc = "returned",
                               !.calls = IF NeedsRewrite(result)
                                         THEN Append(turn[w].calls, Call("condense", b))
                                         ELSE turn[w].calls,
                               !.returned =
                                  Returned(IF NeedsRewrite(result) THEN b.text
                                           ELSE Last(result.messages).content,
                                           result)]]
  /\ UNCHANGED <<nturns, storage, called>>

\* ------------------------------------------------------------------------
\* Spec: sessions of up to MaxTurns turns, from the empty store.  Each
\* backend call draws its outcome from a small set: it raises, or returns
\* one of the texts below.
\* ------------------------------------------------------------------------

SpecUtterances ==
  { "how do LangGraph reducers merge state", "I DONT UNDERSTAND" }

RawJsonReply(obj) == Reply(<<"L", "P", "R">>, obj)

ClassifierOutcomes ==
  { BackendRaises,
    BackendReturns(RawJsonReply(RouterObject("str", "ANSWER", "str", "LangGraph", "num", 90))),
    BackendReturns(RawJsonReply(RouterObject("other", "", "str", "LangGraph", "num", 90))),
    BackendReturns(Reply(<<"J">>, EmptyObject)) }

GenerateRaises == [raises |-> TRUE, message |-> AIMessage("", <<>>)]

GenerateReturns(content, tool_calls) ==
  [raises |-> FALSE, message |-> AIMessage(content, tool_calls)]

GenerateOutcomes ==
  { GenerateRaises,
    GenerateReturns("Which topic do you mean?", <<>>),
    GenerateReturns("reply of 1201 chars", <<>>),
    GenerateReturns("", <<"web_search">>) }

ToolOutcomes ==
  { <<"Web search failed: timeout">> }

VerifierOutcomes ==
  { BackendRaises,
    BackendReturns(RawJsonReply(VerdictObject("true", "absent", ""))),
    BackendReturns(RawJsonReply(VerdictObject("false", "str", "name a reducer"))),
    BackendReturns(RawJsonReply(VerdictObject("absent", "str", "name a reducer"))),
    BackendReturns(Reply(<<"J">>, EmptyObject)) }

TextRaises == [raises |-> TRUE, text |-> ""]

TextReturns(text) == [raises |-> FALSE, text |-> text]

ReviseOutcomes ==
  { TextRaises, TextReturns("revised reply of 400 chars") }

CondenseOutcomes == { TextRaises, TextReturns("concise reply of 300 chars") }

Next ==
  \E w \in Workers :
    \/ \E sid \in SessionIds, u \in SpecUtterances : StartTurn(w, sid, u, MaxTurns)
    \/ \E b \in ClassifierOutcomes : RouterStep(w, b)
    \/ \E b \in GenerateOutcomes : AssistantStep(w, b)
    \/ \E results \in ToolOutcomes : ToolsStep(w, results)
    \/ \E b \in VerifierOutcomes : VerifierStep(w, b)
    \/ \E b \in ReviseOutcomes : ReviseStep(w, b)
    \/ \E b \in CondenseOutcomes : FinishTurn(w, b)

Spec == Init /\ [][Next]_vars

\* ------------------------------------------------------------------------
\* SpecRouter: router_node as a function of the graph state it is entered
\* with and of the classification backend's outcome.  The entry states are
\* those of a turn on a context that up to MaxPriorTurns earlier turns have
\* left in the store; the outcomes range over the shapes of a reply text and
\* over the kinds and values of the members of its object.
\* ------------------------------------------------------------------------

\* The context the store holds after a turn on ctx in which the classifier's
\* outcome is b, the generation backend answers with a short question and
\* the verifier therefore skips its check (graph.py:114-154).
QuickTurn(ctx, u, b) ==
  LET routed == router_node(InitialState(ctx, u), b).state
      answered == assistant_node(routed, GenerateReturns("Which topic do you mean?", <<>>)).state
  IN  NewContext(verifier_node(answered, BackendRaises).state)

PriorUtterances == { "how do LangGraph reducers merge state", "I DONT UNDERSTAND" }

PriorOutcomes ==
  { BackendReturns(RawJsonReply(RouterObject("str", "ANSWER", "str", "LangGraph", "num", 90))),
    BackendReturns(RawJsonReply(RouterObject("str", "TEACH", "str", "n8n", "num", 40))),
    BackendReturns(Reply(<<"J">>, EmptyObject)) }

RECURSIVE PriorContexts(_)
PriorContexts(n) ==
  IF n = 0 THEN {NewSession}
  ELSE PriorContexts(n - 1) \cup
       { QuickTurn(ctx, u, b) :
           ctx \in PriorContexts(n - 1), u \in PriorUtterances, b \in PriorOutcomes }

ReplyShapes == { <<"L", "P", "R">>, <<"F", "L", "P", "R", "F">> }

OtherReplies ==
  { Reply(toks, RouterObject("str", "ANSWER", "str", "LangGraph", "num", 90)) :
      toks \in { <<>>, <<"J">>, <<"L", "P">>, <<"J", "L", "P", "R", "J">>,
                 <<"F", "L", "P", "R", "F", "J", "R">>, <<"R", "L">>, <<"L", "J", "R">>,
                 <<"F", "L", "J", "R", "F">>, <<"L", "P", "R", "L", "P", "R">>,
                 <<"F", "L", "J", "R", "F", "L", "P", "R">>, <<"L", "R">> } }

ModeMembers ==
  { <<"absent", "">>, <<"other", "">>, <<"str", "ANSWER">>, <<"str", "answer">>,
    <<"str", "Teach">>, <<"str", "QUIZ">>, <<"str", "DEBUG">>,
    <<"str", "ASK_CLARIFY">>, <<"str", "simplify">>, <<"str", "CHAT">>, <<"str", "">> }

TopicMembers ==
  { <<"absent", "">>, <<"other", "">>, <<"str", "LangGraph">>, <<"str", "PYTHON">>,
    <<"str", "Unknown">>, <<"str", "Rust">> }

ConfidenceMembers ==
  { <<"absent", 0>>, <<"other", 0>>, <<"nan", 0>>, <<"huge", 0>>, <<"num", -20>>,
    <<"num", 0>>, <<"num", 64>>, <<"num", 65>>, <<"num", 100>>, <<"num", 150>> }

RouterObjects ==
  { RouterObject(m[1], m[2], t[1], t[2], c[1], c[2]) :
      m \in ModeMembers, t \in TopicMembers, c \in ConfidenceMembers }

RouterOutcomes ==
  {BackendRaises}
  \cup { BackendReturns(r) : r \in OtherReplies }
  \cup { BackendReturns(Reply(toks, obj)) : toks \in ReplyShapes, obj \in RouterObjects }

RouterUtterances ==
  { "how do LangGraph reducers merge state", "I DONT UNDERSTAND",
    "Explain more about python decorators" }

\* chat() has read the context and built the graph's initial state
\* (graph.py:103-129); the router is about to run.
RouterEntry(ctx, u) ==
  [IdleTurn EXCEPT !.pc = "router", !.sid = "s1", !.session_state = ctx,
                   !.state = InitialState(ctx, u)]

InitRouter ==
  \E ctx \in PriorContexts(MaxPriorTurns), u \in RouterUtterances :
    /\ store = IF ctx = NewSession THEN [s \in {} |-> NewSession]
               ELSE [s \in {"s1"} |-> ctx]
    /\ turn = [w \in Workers |-> RouterEntry(ctx, u)]
    /\ nturns = 1
    /\ storage = StudyStorage
    /\ called = NoCall

NextRouter == \E w \in Workers, b \in RouterOutcomes : RouterStep(w, b)

SpecRouter == InitRouter /\ [][NextRouter]_vars

\* ------------------------------------------------------------------------
\* SpecFlow: one turn through the whole graph, entered as in SpecRouter, with
\* replies on both sides of the verifier's and the rewrite's length limits
\* and with the shapes a verdict text can take.
\* ------------------------------------------------------------------------

FlowClassifierOutcomes ==
  { BackendReturns(RawJsonReply(RouterObject("str", "ANSWER", "str", "LangGraph", "num", 90))),
    BackendReturns(Reply(<<"J">>, EmptyObject)) }

FlowGenerateOutcomes ==
  { GenerateRaises,
    GenerateReturns("reply of 99 chars", <<>>),
    GenerateReturns("reply of 100 chars", <<>>),
    GenerateReturns("reply of 1200 chars", <<>>),
    GenerateReturns("reply of 1201 chars", <<>>),
    GenerateReturns("", <<"web_search">>) }

VerdictShapes ==
  { <<"L", "P", "R">>, <<"F", "L", "P", "R", "F">>, <<"J", "L", "P", "R", "J">>,
    <<"L", "R">>, <<"J">>, <<>>, <<"L", "P">>, <<"L", "J", "R">> }

VerdictObjects ==
  { VerdictObject(p, s[1], s[2]) :
      p \in {"true", "false", "truthy", "falsy", "absent"},
      s \in { <<"absent", "">>, <<"str", "name a reducer">> } }

FlowVerifierOutcomes ==
  {BackendRaises}
  \cup { BackendReturns(Reply(toks, obj)) : toks \in VerdictShapes, obj \in VerdictObjects }

FlowReviseOutcomes ==
  { TextRaises, TextReturns("revised reply of 400 chars"),
    TextReturns("reply of 1201 chars"), TextReturns("") }

InitFlow ==
  \E ctx \in PriorContexts(MaxPriorTurns), u \in RouterUtterances :
    /\ store = IF ctx = NewSession THEN [s \in {} |-> NewSession]
               ELSE [s \in {"s1"} |-> ctx]
    /\ turn = [w \in Workers |-> RouterEntry(ctx, u)]
    /\ nturns = 1
    /\ storage = StudyStorage
    /\ called = NoCall

NextFlow ==
  \E w \in Workers :
    \/ \E b \in FlowClassifierOutcomes : RouterStep(w, b)
    \/ \E b \in FlowGenerateOutcomes : AssistantStep(w, b)
    \/ \E results \in ToolOutcomes : ToolsStep(w, results)
    \/ \E b \in FlowVerifierOutcomes : VerifierStep(w, b)
    \/ \E b \in FlowReviseOutcomes : ReviseStep(w, b)
    \/ \E b \in CondenseOutcomes : FinishTurn(w, b)

SpecFlow == InitFlow /\ [][NextFlow]_vars

\* ------------------------------------------------------------------------
\* Properties
\* ------------------------------------------------------------------------

\* The context the turn of worker w started from.
Pre(w) == turn[w].session_state

Ran(w, node) == \E i \in DOMAIN turn[w].trace : turn[w].trace[i] = node

CallsNamed(w, name) == SelectSeq(turn[w].calls, LAMBDA c : c.name = name)

\* The classification call of w's turn returned a reply / raised.
Classified(w) ==
  CallsNamed(w, "classify") /= <<>> /\ ~CallsNamed(w, "classify")[1].outcome.raises

ClassifyFailed(w) ==
  CallsNamed(w, "classify") /= <<>> /\ CallsNamed(w, "classify")[1].outcome.raises

ClassifierText(w) == CallsNamed(w, "classify")[1].outcome.content

SimplifyTurn(w) ==
  /\ detect_simplify_intent(turn[w].state.user_message)
  /\ Pre(w).current_subject /= None

\* C1: a turn that returns, whose utterance has simplify intent and whose
\* session had a current topic, leaves that same topic in the store and in
\* the reply, with style simple.
C1_SimplifyKeepsTopic ==
  \A w \in Workers :
    (turn[w].pc = "returned" /\ SimplifyTurn(w))
    => /\ store[turn[w].sid].current_subject = Pre(w).current_subject
       /\ store[turn[w].sid].style = "simple"
       /\ turn[w].returned.detected_subject = Pre(w).current_subject
       /\ turn[w].returned.style = "simple"

C1_Witness ==
  \E w \in Workers :
    /\ turn[w].pc = "returned" /\ SimplifyTurn(w)
    /\ Pre(w).current_subject = LANGGRAPH
    /\ store[turn[w].sid].current_subject = LANGGRAPH
    /\ store[turn[w].sid].style = "simple"

\* C2: whatever text the classification backend returned, the router returns
\* (it does not raise) and its decision has a confidence in [0, 1] and a mode
\* among the six.
C2_DecisionAlwaysNormal ==
  \A w \in Workers :
    (Ran(w, "router") /\ Classified(w))
    => /\ turn[w].error = ""
       /\ turn[w].state.router_result.confidence \in 0..100
       /\ turn[w].state.router_result.mode \in valid_modes

C2_NormalisationRaised ==
  \E w \in Workers :
    /\ Classified(w) /\ turn[w].pc = "raised"
    /\ parse_router_json(ClassifierText(w)).ok
    /\ turn[w].error = "AttributeError"

\* C3: a turn that starts with the clarification counter at 2 does not end
\* in ASK_CLARIFY, so no session has three ASK_CLARIFY turns in a row.
C3_CommitsAfterTwoClarifies ==
  /\ \A w \in Workers :
       (turn[w].pc = "returned" /\ Pre(w).attempts_clarify >= 2)
       => turn[w].returned.router_result.mode /= "ASK_CLARIFY"
  /\ \A sid \in DOMAIN store : store[sid].attempts_clarify <= 2

C3_ThirdClarify ==
  \E w \in Workers :
    /\ turn[w].pc = "returned" /\ Pre(w).attempts_clarify = 2
    /\ turn[w].returned.router_result.mode = "ASK_CLARIFY"
    /\ store[turn[w].sid].attempts_clarify = 3

\* The decision the classifier's reply stands for before the confidence gate:
\* the normalised object, or the fallback when the reply does not parse.
Decision(w) ==
  LET parsed == parse_router_json(ClassifierText(w))
  IN  IF parsed.ok THEN validate_router_result(parsed.obj)
      ELSE ParseFallback(Pre(w).current_subject)

\* The router of w's turn returned on the classifier path.
Routed(w) == Ran(w, "router") /\ Classified(w) /\ turn[w].trace = <<"router">>
             /\ turn[w].error = ""

\* C4: on the classifier path the final mode is ASK_CLARIFY whenever the
\* normalised confidence is below 0.65 and the pre-turn counter is below 2;
\* otherwise it is the classifier's normalised mode.
C4_ConfidenceGate ==
  \A w \in Workers :
    Routed(w)
    => LET final == turn[w].state.router_result
       IN  /\ final.confidence = Decision(w).confidence
           /\ (final.confidence < 65 /\ Pre(w).attempts_clarify < 2)
              => final.mode = "ASK_CLARIFY"
           /\ (final.confidence >= 65 \/ Pre(w).attempts_clarify >= 2)
              => final.mode = Decision(w).mode

C4_Witness ==
  \E w \in Workers :
    /\ Routed(w) /\ Decision(w).mode = "ANSWER"
    /\ turn[w].state.router_result.confidence = 64
    /\ Pre(w).attempts_clarify = 1
    /\ turn[w].state.router_result.mode = "ASK_CLARIFY"

\* C5: the stored counter is never negative, and a turn that returns has
\* stored the pre-turn value plus one when its final mode is ASK_CLARIFY and
\* 0 for every other mode, the simplify fast path included.
C5_AttemptCounter ==
  /\ \A sid \in DOMAIN store : store[sid].attempts_clarify >= 0
  /\ \A w \in Workers :
       turn[w].pc = "returned"
       => store[turn[w].sid].attempts_clarify =
            IF turn[w].returned.router_result.mode = "ASK_CLARIFY"
            THEN Pre(w).attempts_clarify + 1 ELSE 0

C5_Witness ==
  \E w \in Workers :
    /\ turn[w].pc = "returned" /\ Pre(w).attempts_clarify = 1
    /\ turn[w].returned.router_result.mode = "ASK_CLARIFY"
    /\ store[turn[w].sid].attempts_clarify = 2

Unparseable(w) == Classified(w) /\ ~parse_router_json(ClassifierText(w)).ok

\* C6: when the classifier's reply does not parse, the router returns with
\* mode ASK_CLARIFY, confidence 0.3 and the prior topic (Unknown when there
\* is none), and the current topic stays the prior one (general when there
\* was none).
C6_ParseFallback ==
  \A w \in Workers :
    (Ran(w, "router") /\ Unparseable(w))
    => /\ turn[w].error = ""
       /\ turn[w].state.router_result.mode = "ASK_CLARIFY"
       /\ turn[w].state.router_result.confidence = 30
       /\ turn[w].state.router_result.topic =
            IF Pre(w).current_subject /= None
            THEN Pre(w).current_subject ELSE "Unknown"
       /\ turn[w].state.current_subject =
            IF Pre(w).current_subject /= None
            THEN Pre(w).current_subject ELSE GENERAL

C6_Witness ==
  \E w \in Workers :
    /\ Ran(w, "router") /\ Unparseable(w)
    /\ ClassifierText(w).toks = <<"F", "L", "J", "R", "F", "L", "P", "R">>
    /\ Pre(w).current_subject = LANGGRAPH
    /\ turn[w].state.router_result.topic = "langgraph"
    /\ turn[w].state.current_subject = LANGGRAPH

\* C7: when the classification call fails, the router returns the
\* ask-clarify decision and the turn is not ended by the failure.
C7_ClassifierFailureDegrades ==
  \A w \in Workers :
    ClassifyFailed(w)
    => /\ turn[w].state.router_result.mode = "ASK_CLARIFY"
       /\ ~(turn[w].pc = "raised" /\ turn[w].trace = <<"router">>)

C7_FailureRaised ==
  \E w \in Workers :
    /\ ClassifyFailed(w) /\ turn[w].pc = "raised"
    /\ turn[w].trace = <<"router">> /\ turn[w].error = "BackendError"
    /\ turn[w].returned = NoReturn

\* The quality-check call of w's turn raised, or returned a text that does
\* not parse, or one whose object has no pass member.
VerdictDefaulted(w) ==
  /\ CallsNamed(w, "verify") /= <<>>
  /\ LET b == CallsNamed(w, "verify")[1].outcome
     IN  \/ b.raises
         \/ ~parse_router_json(b.content).ok
         \/ parse_router_json(b.content).obj.pass_t = "absent"

\* The reply the assistant gave last in w's turn.
OriginalReply(w) ==
  CallsNamed(w, "generate")[Len(CallsNamed(w, "generate"))].outcome.message

\* C8: when the quality-check call raises, or its reply does not parse, or
\* the verdict has no pass member, the verdict is a pass: the graph ends
\* without a revision and its last message is the assistant's own reply,
\* which is what the turn returns unless the reply is long enough for the
\* rewrite.
C8_VerdictDefaultsToPass ==
  \A w \in Workers :
    VerdictDefaulted(w)
    => /\ turn[w].state.verifier_passed
       /\ turn[w].state.verifier_feedback = None
       /\ ~Ran(w, "revise")
       /\ CallsNamed(w, "revise") = <<>>
       /\ turn[w].pc \in {"END", "returned", "raised"}
       /\ turn[w].pc = "raised" => CallsNamed(w, "condense") /= <<>>
       /\ Last(turn[w].state.messages) = OriginalReply(w)
       /\ (turn[w].pc = "returned" /\ CallsNamed(w, "condense") = <<>>)
          => turn[w].returned.response = OriginalReply(w).content

C8_Witness ==
  \E w \in Workers :
    /\ VerdictDefaulted(w)
    /\ CallsNamed(w, "verify")[1].outcome.content.toks = <<"L", "P", "R">>
    /\ turn[w].pc = "returned"
    /\ turn[w].trace = <<"router", "assistant", "verifier">>
    /\ turn[w].returned.response = "reply of 1200 chars"

\* What the order of a turn's steps allows after each node.
Follows(a, b) ==
  CASE a = "router" -> b = "assistant"
    [] a = "assistant" -> b \in {"tools", "verifier"}
    [] a = "tools" -> b = "assistant"
    [] a = "verifier" -> b = "revise"
    [] OTHER -> FALSE

\* C9: the nodes of a turn run in the order router, assistant, any number of
\* (tools, assistant), verifier, then possibly revise: the router once and
\* first, tools only on a reply that carries tool calls and back to the
\* assistant, the verifier only on a reply without tool calls, revise only
\* after the verifier, and the graph ends only after the verifier or revise.
C9_TurnOrder ==
  \A w \in Workers :
    LET t == turn[w].trace
        pc == turn[w].pc
    IN  /\ t /= <<>> => t[1] = "router"
        /\ \A i \in 2..Len(t) : Follows(t[i - 1], t[i])
        /\ pc = "router" => t = <<>>
        /\ pc \in {"assistant", "tools", "verifier", "revise"}
           => (t /= <<>> /\ Follows(Last(t), pc))
        /\ pc = "tools" => Last(turn[w].state.messages).tool_calls /= <<>>
        /\ pc = "verifier"
           => /\ Last(turn[w].state.messages).type = "ai"
              /\ Last(turn[w].state.messages).tool_calls = <<>>
        /\ pc = "revise" => ~turn[w].state.verifier_passed
        /\ pc \in {"END", "returned"}
           => /\ t /= <<>> /\ Last(t) \in {"verifier", "revise"}
              /\ turn[w].state.verifier_passed

C9_Witness ==
  \E w \in Workers :
    /\ turn[w].pc = "returned"
    /\ turn[w].trace =
         <<"router", "assistant", "tools", "assistant", "verifier", "revise">>

\* C10: revise runs at most once in a turn, nothing runs after it, and no
\* quality check follows it: when it returns, whatever the revised text, the
\* graph has ended.
C10_ReviseOnce ==
  \A w \in Workers :
    LET t == turn[w].trace
    IN  /\ Cardinality({ i \in DOMAIN t : t[i] = "revise" }) <= 1
        /\ \A i \in DOMAIN t : t[i] = "revise" => i = Len(t)
        /\ Len(CallsNamed(w, "revise")) <= 1
        /\ Len(CallsNamed(w, "verify")) <= 1
        /\ Ran(w, "revise")
           => /\ turn[w].pc \in {"END", "returned", "raised"}
              /\ turn[w].pc = "raised"
                 => \/ CallsNamed(w, "revise")[1].outcome.raises
                    \/ CallsNamed(w, "condense") /= <<>>

C10_Witness ==
  \E w \in Workers :
    /\ turn[w].pc = "END" /\ Last(turn[w].trace) = "revise"
    /\ CallsNamed(w, "revise")[1].outcome = TextReturns("reply of 1201 chars")
    /\ Last(turn[w].state.messages).content = "reply of 1201 chars"
    /\ Len(CallsNamed(w, "verify")) = 1

\* ------------------------------------------------------------------------
\* SpecLoop: one turn on a new session in which the generation backend may
\* ask for a tool in every reply.
\* ------------------------------------------------------------------------

LoopGenerateOutcomes ==
  { GenerateReturns("reply of 1200 chars", <<>>),
    GenerateReturns("", <<"web_search">>) }

LoopVerifierOutcomes ==
  { BackendReturns(RawJsonReply(VerdictObject("true", "absent", ""))),
    BackendReturns(RawJsonReply(VerdictObject("false", "str", "name a reducer"))) }

NextLoop ==
  \E w \in Workers :
    \/ \E sid \in SessionIds, u \in SpecUtterances : StartTurn(w, sid, u, 1)
    \/ \E b \in FlowClassifierOutcomes : RouterStep(w, b)
    \/ \E b \in LoopGenerateOutcomes : AssistantRuns(w, b)
    \/ \E results \in ToolOutcomes : ToolsStep(w, results)
    \/ \E b \in LoopVerifierOutcomes : VerifierStep(w, b)
    \/ \E b \in { TextReturns("revised reply of 400 chars") } : ReviseStep(w, b)
    \/ \E b \in CondenseOutcomes : FinishTurn(w, b)
    \/ RecursionStop(w)

SpecLoop == Init /\ [][NextLoop]_vars

\* C11: a turn in which no backend call raises ends in DONE, however often
\* the generation backend asks for tools: it is never ended by the tool
\* loop.
C11_ToolLoopEndsInDone ==
  \A w \in Workers :
    turn[w].pc = "raised"
    => \E i \in DOMAIN turn[w].calls : turn[w].calls[i].outcome.raises

C11_LoopRaised ==
  \E w \in Workers :
    /\ turn[w].pc = "raised" /\ turn[w].error = "GraphRecursionError"
    /\ turn[w].rounds = 12
    /\ \A i \in DOMAIN turn[w].calls : ~turn[w].calls[i].outcome.raises
    /\ turn[w].sid \notin DOMAIN store

\* The messages a call of a turn produced: the assistant's reply, a tool
\* round's result messages, the revised reply.
ProducedBy(call) ==
  CASE call.name = "generate" /\ ~call.outcome.raises -> <<call.outcome.message>>
    [] call.name = "tools" ->
         [i \in DOMAIN call.outcome.results |-> ToolMessage(call.outcome.results[i])]
    [] call.name = "revise" /\ ~call.outcome.raises ->
         <<AIMessage(call.outcome.text, <<>>)>>
    [] OTHER -> <<>>

RECURSIVE Produced(_)
Produced(calls) ==
  IF calls = <<>> THEN <<>>
  ELSE Produced(SubSeq(calls, 1, Len(calls) - 1)) \o ProducedBy(calls[Len(calls)])

BeforeRevision(w) ==
  Pre(w).messages \o <<HumanMessage(turn[w].state.user_message)>>
  \o Produced(SelectSeq(turn[w].calls, LAMBDA c : c.name /= "revise"))

\* C13: when a revision has run, the history has the length it had before
\* the revision, its last message is the revised reply, and the failing
\* reply is no longer among the messages of the turn that the store holds.
C13_RevisionReplaces ==
  \A w \in Workers :
    (turn[w].pc = "returned" /\ Ran(w, "revise"))
    => LET post == store[turn[w].sid].messages
       IN  /\ Len(post) = Len(BeforeRevision(w))
           /\ Last(post) = AIMessage(CallsNamed(w, "revise")[1].outcome.text, <<>>)
           /\ \A i \in (Len(Pre(w).messages) + 1)..Len(post) :
                post[i] /= OriginalReply(w)

C13_RevisionAppended ==
  \E w \in Workers :
    /\ turn[w].pc = "returned" /\ Ran(w, "revise")
    /\ LET post == store[turn[w].sid].messages
       IN  /\ Len(post) = Len(BeforeRevision(w)) + 1
           /\ post[Len(post) - 1] = OriginalReply(w)
           /\ Last(post) = AIMessage("revised reply of 400 chars", <<>>)

\* The store's entry for the session of w's turn is the one the turn began
\* with.
StoreAsBefore(w) ==
  IF Pre(w) = NewSession THEN turn[w].sid \notin DOMAIN store
  ELSE turn[w].sid \in DOMAIN store /\ store[turn[w].sid] = Pre(w)

\* C14: while a turn is in the graph the store's entry is still the pre-turn
\* one, and once chat() has returned the entry is the whole context of the
\* graph's final state, every field of it.
C14_StoreWrittenOnceAtEnd ==
  \A w \in Workers :
    /\ turn[w].pc \in {"router", "assistant", "tools", "verifier", "revise", "END"}
       => StoreAsBefore(w)
    /\ turn[w].pc = "returned"
       => LET entry == store[turn[w].sid]
              result == turn[w].state
          IN  /\ DOMAIN entry = {"messages", "current_subject", "last_subject_question",
                                 "last_assistant_answer", "style", "attempts_clarify"}
              /\ entry.messages = result.messages
              /\ entry.current_subject = result.current_subject
              /\ entry.last_subject_question = result.last_subject_question
              /\ entry.last_assistant_answer = result.last_assistant_answer
              /\ entry.style = result.style
              /\ entry.attempts_clarify = result.attempts_clarify

C14_Witness ==
  \E w \in Workers :
    /\ turn[w].pc = "END" /\ Pre(w) /= NewSession /\ StoreAsBefore(w)
    /\ turn[w].state.attempts_clarify = 2
    /\ Len(turn[w].state.messages) > Len(store[turn[w].sid].messages)

\* C15: when chat() has raised, in the router, the assistant, the revision
\* or the rewrite, the store's entry for the session is the pre-turn one.
C15_RaiseLeavesStore ==
  \A w \in Workers : turn[w].pc = "raised" => StoreAsBefore(w)

C15_Witness ==
  \E w \in Workers :
    /\ turn[w].pc = "raised" /\ CallsNamed(w, "condense") /= <<>>
    /\ Pre(w) /= NewSession /\ StoreAsBefore(w)
    /\ turn[w].state.current_subject /= Pre(w).current_subject

\* ------------------------------------------------------------------------
\* SpecServe: main.py serving POST /chat.  Requests on two session keys are
\* pending at once; each is handled by send_message, which calls chat().
\* ------------------------------------------------------------------------

Handlers == {"w1", "w2"}

ServeSessions == {"s1", "s2"}

\* A variant in which the handler is run on a worker thread, so that another
\* handler can start while it is in chat().
LoopFreeThreaded(w) == TRUE

\* main.py:46-53: send_message is a coroutine (async def) that calls the
\* blocking chat() without awaiting anything, so the event loop starts no
\* other handler before this one has returned or raised.
LoopFree(w) ==
  \A v \in DOMAIN turn \ {w} : turn[v].pc \in {"idle", "returned", "raised"}

\* main.py:46-53: the event loop starts the handler of a pending request
send_message(w, sid, message) ==
  /\ LoopFree(w)
  /\ StartTurn(w, sid, message, MaxTurns)

ServeGenerateOutcomes ==
  { GenerateRaises, GenerateReturns("Which topic do you mean?", <<>>) }

InitServe ==
  /\ store = [s \in {} |-> NewSession]
  /\ turn = [w \in Handlers |-> IdleTurn]
  /\ nturns = 0
  /\ storage = StudyStorage
  /\ called = NoCall

NextServe ==
  \E w \in Handlers :
    \/ \E sid \in ServeSessions, u \in SpecUtterances : send_message(w, sid, u)
    \/ \E b \in FlowClassifierOutcomes : RouterStep(w, b)
    \/ \E b \in ServeGenerateOutcomes : AssistantStep(w, b)
    \/ \E b \in {BackendRaises} : VerifierStep(w, b)
    \/ \E b \in {TextRaises} : FinishTurn(w, b)

SpecServe == InitServe /\ [][NextServe]_vars

IsPrefix(s, t) == Len(s) <= Len(t) /\ SubSeq(t, 1, Len(s)) = s

InTurn(w) == turn[w].pc \notin {"idle", "returned", "raised"}

\* C16: of two requests on the same session key one is handled after the
\* other: they are never in chat() together, the later one starts from the
\* context the earlier one wrote, and the stored history holds the
\* utterance and the reply of every turn that returned.
C16_TurnsSerialized ==
  \A w, v \in DOMAIN turn :
    (w /= v /\ turn[w].sid = turn[v].sid)
    => /\ ~(InTurn(w) /\ InTurn(v))
       /\ turn[w].pc = "returned"
          => /\ IsPrefix(turn[w].state.messages, store[turn[w].sid].messages)
             /\ InTurn(v) => IsPrefix(turn[w].state.messages, Pre(v).messages)
       /\ (turn[w].pc = "returned" /\ turn[v].pc = "returned")
          => \/ IsPrefix(turn[w].state.messages, Pre(v).messages)
             \/ IsPrefix(turn[v].state.messages, Pre(w).messages)

C16_Witness ==
  /\ turn["w1"].pc = "returned" /\ turn["w2"].pc = "returned"
  /\ turn["w1"].sid = "s1" /\ turn["w2"].sid = "s1"
  /\ Pre("w2") = NewContext(turn["w1"].state)
  /\ Len(store["s1"].messages) = 4
  /\ store["s1"].messages[1].content /= store["s1"].messages[3].content

\* C17: a step changes the store's entry of a key only when it is the end of
\* a turn on that key, and never removes a key; the state a turn enters the
\* router with is built from the entry of its own key alone.
C17_SessionsIndependent ==
  /\ [](\A w \in DOMAIN turn :
          turn[w].pc = "router"
          => /\ Pre(w) = IF turn[w].sid \in DOMAIN store
                         THEN store[turn[w].sid] ELSE NewSession
             /\ turn[w].state = InitialState(Pre(w), turn[w].state.user_message))
  /\ [][/\ DOMAIN store \subseteq DOMAIN store'
        /\ \A s \in DOMAIN store' :
             (s \notin DOMAIN store \/ store'[s] /= store[s])
             => \E w \in DOMAIN turn :
                  /\ turn[w].sid = s
                  /\ turn[w].pc = "END" /\ turn'[w].pc = "returned"]_vars

C17_Witness ==
  /\ DOMAIN store = {"s1", "s2"}
  /\ turn["w1"].pc = "returned" /\ turn["w1"].sid = "s1"
  /\ turn["w2"].pc = "returned" /\ turn["w2"].sid = "s2"
  /\ store["s1"] = NewContext(turn["w1"].state)
  /\ store["s2"] = NewContext(turn["w2"].state)
  /\ store["s1"].current_subject /= store["s2"].current_subject

\* C18: a turn on a key the store does not hold enters the router with a
\* history of the utterance alone, no topic, no earlier question or answer,
\* normal style and counter 0, without an error; when it has returned the
\* store holds an entry for the key.
C18_UnknownKeyCreatesSession ==
  \A w \in Workers :
    /\ (turn[w].pc = "router" /\ turn[w].sid \notin DOMAIN store)
       => /\ turn[w].error = ""
          /\ turn[w].state.messages = <<HumanMessage(turn[w].state.user_message)>>
          /\ turn[w].state.current_subject = None
          /\ turn[w].state.last_subject_question = None
          /\ turn[w].state.last_assistant_answer = None
          /\ turn[w].state.style = "normal"
          /\ turn[w].state.attempts_clarify = 0
    /\ turn[w].pc = "returned"
       => /\ turn[w].sid \in DOMAIN store
          /\ store[turn[w].sid].messages /= <<>>

C18_Witness ==
  \E w \in Workers :
    /\ turn[w].pc = "returned" /\ Pre(w).messages = <<>>
    /\ turn[w].sid \in DOMAIN store
    /\ store[turn[w].sid].messages[1] = HumanMessage(turn[w].state.user_message)
    /\ Len(store[turn[w].sid].messages) = 2

\* C19: when the utterance has simplify intent and the session has a topic,
\* the router returns without a classification call, with mode SIMPLIFY,
\* confidence 1.0 and a topic that names the prior topic, whatever the
\* counter is; the topic stays, the style is simple and the counter is 0.
C19_SimplifyFastPath ==
  \A w \in Workers :
    (Ran(w, "router") /\ SimplifyTurn(w))
    => LET decision == turn[w].state.router_result
       IN  /\ turn[w].error = ""
           /\ turn[w].calls = <<>>
           /\ decision.mode = "SIMPLIFY"
           /\ decision.confidence = 100
           /\ IF Pre(w).current_subject = GENERAL THEN decision.topic = "Unknown"
              ELSE Lower(decision.topic) = Pre(w).current_subject
           /\ turn[w].state.current_subject = Pre(w).current_subject
           /\ turn[w].state.style = "simple"
           /\ turn[w].state.attempts_clarify = 0

C19_Witness ==
  \E w \in Workers :
    /\ Ran(w, "router") /\ SimplifyTurn(w)
    /\ Pre(w).attempts_clarify = 2 /\ Pre(w).current_subject = "n8n"
    /\ turn[w].state.router_result.mode = "SIMPLIFY"
    /\ turn[w].state.attempts_clarify = 0
    /\ turn[w].calls = <<>>

\* C20: the topic of every decision the router returns is one of the nine
\* topics in its canonical spelling.
C20_TopicCanonical ==
  \A w \in Workers :
    (Ran(w, "router") /\ turn[w].error = "")
    => turn[w].state.router_result.topic \in valid_topics

C20_FastPathSpelling ==
  \E w \in Workers :
    /\ Ran(w, "router") /\ SimplifyTurn(w) /\ turn[w].error = ""
    /\ Pre(w).current_subject = LANGGRAPH
    /\ turn[w].state.router_result.topic = "Langgraph"

\* ------------------------------------------------------------------------
\* SpecDecide: one turn of a new session or of one with a topic and a
\* question, over the objects a classifier reply can hold; the reply is
\* short and the turn returns.
\* ------------------------------------------------------------------------

DecideTopicMembers ==
  { <<"absent", "">>, <<"other", "">> }
  \cup { <<"str", t>> :
           t \in { "LangGraph", "langgraph", "LANGGRAPH", "Python", "python", "PYTHON",
                   "langchain", "Javascript", "llm", "LLM", "automation", "N8N", "n8n",
                   "Gohighlevel", "Unknown", "unknown", "general", "Rust" } }

DecideObjects ==
  { RouterObject(m[1], m[2], t[1], t[2], c[1], c[2]) :
      m \in ModeMembers, t \in DecideTopicMembers,
      c \in ConfidenceMembers \cup { <<"num", 90>> } }

DecideOutcomes == { BackendReturns(RawJsonReply(obj)) : obj \in DecideObjects }

PythonAnswered ==
  QuickTurn(NewSession, "show code for a python loop",
            BackendReturns(RawJsonReply(
              RouterObject("str", "ANSWER", "str", "Python", "num", 90))))

DecideContexts ==
  { NewSession, PythonAnswered,
    QuickTurn(PythonAnswered, "I DONT UNDERSTAND", BackendRaises) }

DecideUtterances == { "how do LangGraph reducers merge state", "I DONT UNDERSTAND" }

InitDecide ==
  \E ctx \in DecideContexts, u \in DecideUtterances :
    /\ store = IF ctx = NewSession THEN [s \in {} |-> NewSession]
               ELSE [s \in {"s1"} |-> ctx]
    /\ turn = [w \in Workers |-> RouterEntry(ctx, u)]
    /\ nturns = 1
    /\ storage = StudyStorage
    /\ called = NoCall

NextDecide ==
  \E w \in Workers :
    \/ \E b \in DecideOutcomes : RouterStep(w, b)
    \/ \E b \in {GenerateReturns("Which topic do you mean?", <<>>)} : AssistantStep(w, b)
    \/ \E b \in {BackendRaises} : VerifierStep(w, b)
    \/ \E b \in {TextRaises} : FinishTurn(w, b)

SpecDecide == InitDecide /\ [][NextDecide]_vars

\* The object of the classifier's reply in w's turn.
ParsedObject(w) == parse_router_json(ClassifierText(w)).obj

\* A mode of the six in some letter case, a topic of the nine in some letter
\* case, a number in [0, 1].
Recognised(obj) ==
  /\ obj.mode_t = "str" /\ Upper(obj.mode) \in valid_modes
  /\ obj.topic_t = "str" /\ \E t \in valid_topics : Lower(t) = Lower(obj.topic)
  /\ obj.conf_t = "num" /\ obj.conf \in 0..100

\* A normalised decision read as a parsed object again.
AsObject(v) ==
  [RouterObject("str", v.mode, "str", v.topic, "num", v.confidence)
     EXCEPT !.mi_t = "list", !.mi = v.missing_info]

\* C21: validate_router_result gives a recognised object its mode in upper
\* case, its topic in the canonical spelling and its confidence unchanged,
\* which is the decision the router goes on with; applied to its own output
\* it returns that output.
C21_ValidateRecognised ==
  \A w \in Workers :
    (Routed(w) /\ parse_router_json(ClassifierText(w)).ok)
    => LET obj == ParsedObject(w)
           v == validate_router_result(obj)
       IN  /\ Recognised(obj)
              => /\ v.mode = Upper(obj.mode)
                 /\ v.topic \in valid_topics
                 /\ Lower(v.topic) = Lower(obj.topic)
                 /\ v.confidence = obj.conf
                 /\ turn[w].state.router_result.topic = v.topic
                 /\ turn[w].state.router_result.confidence = v.confidence
           /\ ValidateError(AsObject(v)) = ""
           /\ validate_router_result(AsObject(v)) = v

C21_Witness ==
  \E w \in Workers :
    /\ Routed(w) /\ Recognised(ParsedObject(w))
    /\ ParsedObject(w).mode = "answer" /\ ParsedObject(w).topic = "PYTHON"
    /\ ParsedObject(w).conf = 90
    /\ Pre(w) = NewSession
    /\ turn[w].state.router_result = RouterResult("ANSWER", "Python", 90, <<>>)

\* The router of w's turn ran and returned.
RouterReturned(w) ==
  Ran(w, "router") /\ ~(turn[w].trace = <<"router">> /\ turn[w].error /= "")

\* What the router of w's turn was given: the utterance, the prior topic,
\* the prior question, the counter and the text of the classification
\* backend, if it was called.
RouterInput(w) ==
  <<turn[w].state.user_message, Pre(w).current_subject, Pre(w).last_subject_question,
    Pre(w).attempts_clarify,
    IF Classified(w) THEN ClassifierText(w) ELSE Reply(<<>>, EmptyObject)>>

\* What the router handed back: the decision and the context updates.
RouterOutput(w) ==
  <<CallsNamed(w, "classify") = <<>>, turn[w].state.router_result,
    turn[w].state.current_subject, turn[w].state.style,
    turn[w].state.last_subject_question, turn[w].state.attempts_clarify>>

\* C22: two runs of the router on the same utterance, prior topic, prior
\* question, counter and backend text hand back the same decision and the
\* same context updates, whatever else differs between the two turns (the
\* session, the handler, the history, the last answer); unparseable text
\* gives the same fallback both times.
C22_RoutingDeterministic ==
  \A w \in DOMAIN turn, v \in DOMAIN turn :
    (RouterReturned(w) /\ RouterReturned(v) /\ RouterInput(w) = RouterInput(v))
    => /\ RouterOutput(w) = RouterOutput(v)
       /\ (Classified(w) /\ Unparseable(w))
          => /\ turn[v].state.router_result.mode = "ASK_CLARIFY"
             /\ turn[v].state.router_result
                  = [ParseFallback(Pre(w).current_subject) EXCEPT !.mode = "ASK_CLARIFY"]

C22_Witness ==
  \E w \in DOMAIN turn, v \in DOMAIN turn :
    /\ w /= v /\ RouterReturned(w) /\ RouterReturned(v)
    /\ Classified(w) /\ RouterInput(w) = RouterInput(v)
    /\ Pre(w).messages /= Pre(v).messages

\* The condensation call was made in w's turn.
Condensed(w) == CallsNamed(w, "condense") /= <<>>

\* The three conditions of the rewrite, read from the turn's utterance and
\* the graph's result.
CondenseDue(w) ==
  /\ turn[w].state.style /= "simple"
  /\ ~detect_verbosity(turn[w].state.user_message)
  /\ TextLen(Last(turn[w].state.messages).content) > 1200

\* C23: the condensation call is made only for a reply of a turn whose style
\* is not simple, whose utterance has no verbose intent and whose final
\* message is longer than 1200; a turn that returns has made it exactly then
\* and returns its text, and otherwise returns the content of the final
\* message as it is.
C23_CondensedExactlyWhenDue ==
  \A w \in Workers :
    /\ Condensed(w) => CondenseDue(w)
    /\ turn[w].pc = "returned"
       => /\ Condensed(w) <=> CondenseDue(w)
          /\ Condensed(w)
             => turn[w].returned.response = CallsNamed(w, "condense")[1].outcome.text
          /\ ~Condensed(w)
             => turn[w].returned.response = Last(turn[w].state.messages).content

C23_Witness ==
  \E w \in Workers :
    /\ turn[w].pc = "returned" /\ Condensed(w)
    /\ Last(turn[w].state.messages).content = "reply of 1201 chars"
    /\ turn[w].returned.response = "concise reply of 300 chars"

\* ------------------------------------------------------------------------
\* SpecTurns: the turns of one conversation whose utterances ask for detail,
\* for code, for a simpler answer or for none of these, with replies on
\* both sides of the rewrite's limit.
\* ------------------------------------------------------------------------

TurnsUtterances ==
  { "how do LangGraph reducers merge state", "I DONT UNDERSTAND",
    "Explain more about python decorators", "show code for a python loop",
    "what is the main concept of LangGraph" }

TurnsClassifierOutcomes ==
  { BackendReturns(RawJsonReply(RouterObject("str", "ANSWER", "str", "LangGraph", "num", 90))),
    BackendReturns(RawJsonReply(RouterObject("str", "SIMPLIFY", "str", "Python", "num", 90))) }

TurnsGenerateOutcomes ==
  { GenerateReturns("Which topic do you mean?", <<>>),
    GenerateReturns("reply of 1201 chars", <<>>) }

TurnsCondenseOutcomes ==
  { TextReturns("concise reply of 300 chars"), TextReturns("reply of 1201 chars") }

NextTurns ==
  \E w \in Workers :
    \/ \E u \in TurnsUtterances : StartTurn(w, "s1", u, MaxTurns)
    \/ \E b \in TurnsClassifierOutcomes : RouterStep(w, b)
    \/ \E b \in TurnsGenerateOutcomes : AssistantStep(w, b)
    \/ \E b \in {BackendRaises} : VerifierStep(w, b)
    \/ \E b \in TurnsCondenseOutcomes : FinishTurn(w, b)

SpecTurns == Init /\ [][NextTurns]_vars

\* s holds the part p.
HasPart(s, p) == \E i \in DOMAIN s : s[i] = p

\* An utterance of an earlier turn of w's conversation asked for detail / for code.
EarlierVerbose(w) ==
  \E i \in DOMAIN Pre(w).messages :
    Pre(w).messages[i].type = "human" /\ detect_verbosity(Pre(w).messages[i].content)

EarlierCode(w) ==
  \E i \in DOMAIN Pre(w).messages :
    Pre(w).messages[i].type = "human" /\ detect_code_request(Pre(w).messages[i].content)

\* C24: in every turn, whatever the earlier turns of the conversation asked
\* for, the verbose and code overrides are in the instructions only when
\* this turn's utterance asks for detail or for code (and, style not simple,
\* exactly then), the flag handed to the rewrite is this utterance's, and a
\* long reply of a turn that does not ask for detail is condensed.
C24_FlagsPerTurn ==
  \A w \in Workers :
    LET u == turn[w].state.user_message
    IN  /\ Ran(w, "assistant")
           => /\ HasPart(turn[w].prompt, "VERBOSE MODE")
                 <=> (detect_verbosity(u) /\ turn[w].state.style /= "simple")
              /\ HasPart(turn[w].prompt, "CODE REQUESTED")
                 <=> (detect_code_request(u) /\ turn[w].state.style /= "simple")
        /\ (Ran(w, "assistant") /\ turn[w].error = "")
           => turn[w].state.verbose_mode = detect_verbosity(u)
        /\ (turn[w].pc = "returned" /\ ~detect_verbosity(u)
            /\ turn[w].state.style /= "simple"
            /\ TextLen(Last(turn[w].state.messages).content) > 1200)
           => Condensed(w)

C24_Witness ==
  \E w \in Workers :
    /\ turn[w].pc = "returned" /\ EarlierVerbose(w) /\ EarlierCode(w)
    /\ ~detect_verbosity(turn[w].state.user_message)
    /\ ~detect_code_request(turn[w].state.user_message)
    /\ turn[w].state.style /= "simple"
    /\ ~HasPart(turn[w].prompt, "VERBOSE MODE")
    /\ Condensed(w)

\* The quality-check call was made in w's turn.
Verified(w) == CallsNamed(w, "verify") /= <<>>

\* The four conditions of the quality check on the assistant's last reply.
VerifyDue(w) ==
  /\ OriginalReply(w).tool_calls = <<>>
  /\ turn[w].state.current_subject = LANGGRAPH
  /\ turn[w].state.style /= "simple"
  /\ TextLen(OriginalReply(w).content) >= 100

\* C25: the quality-check call is made at most once in a turn, by the
\* verifier, and once the verifier has run it has been made exactly when the
\* assistant's reply has no tool calls, the topic is LangGraph, the style is
\* not simple and the reply has at least 100 characters; without the call
\* the verifier passes and no revision follows.
C25_VerifyExactlyWhenDue ==
  \A w \in Workers :
    /\ Len(CallsNamed(w, "verify")) <= 1
    /\ Verified(w) => (Ran(w, "verifier") /\ VerifyDue(w))
    /\ Ran(w, "verifier")
       => /\ Verified(w) <=> VerifyDue(w)
          /\ ~Verified(w)
             => /\ turn[w].state.verifier_passed
                /\ ~Ran(w, "revise")
                /\ turn[w].pc \in {"END", "returned", "raised"}

C25_Witness ==
  \E w \in Workers :
    /\ Ran(w, "verifier") /\ Verified(w)
    /\ OriginalReply(w).content = "reply of 100 chars"
    /\ turn[w].pc = "returned"

\* The quality check of w's turn was made and its reply parsed to a verdict
\* whose pass member is false (or another value that counts as false).
VerdictFailed(w) ==
  /\ Verified(w)
  /\ ~CallsNamed(w, "verify")[1].outcome.raises
  /\ VerdictFails(parse_router_json(CallsNamed(w, "verify")[1].outcome.content))

\* C26: the revision runs only in a turn whose quality check was made and
\* gave a failing verdict, and after such a verdict the revision is what
\* comes next; after a passing verdict, a skipped check or a defaulted one
\* the graph ends without a revision and its final message is the
\* assistant's reply.
C26_ReviseExactlyOnFail ==
  \A w \in Workers :
    /\ Ran(w, "revise") => VerdictFailed(w)
    /\ (Ran(w, "verifier") /\ VerdictFailed(w))
       => (turn[w].pc = "revise" \/ Ran(w, "revise"))
    /\ (Ran(w, "verifier") /\ ~VerdictFailed(w))
       => /\ ~Ran(w, "revise")
          /\ turn[w].pc \in {"END", "returned", "raised"}
          /\ turn[w].pc = "raised" => Condensed(w)
          /\ Last(turn[w].state.messages) = OriginalReply(w)

C26_Witness ==
  \E w \in Workers :
    /\ VerdictFailed(w) /\ Ran(w, "revise")
    /\ CallsNamed(w, "verify")[1].outcome.content.obj.pass_t = "false"
    /\ turn[w].pc = "returned"
    /\ turn[w].returned.response = "revised reply of 400 chars"

\* C27: the router leaves the last question as the session had it, unless
\* the classifier path ends with a topic other than general and a mode other
\* than SIMPLIFY and ASK_CLARIFY, and then it is the turn's utterance; the
\* simplify fast path leaves it; the store gets what the router left.
C27_LastQuestion ==
  \A w \in Workers :
    /\ RouterReturned(w)
       => turn[w].state.last_subject_question
            = IF /\ CallsNamed(w, "classify") /= <<>>
                 /\ turn[w].state.current_subject /= GENERAL
                 /\ turn[w].state.router_result.mode \notin {"SIMPLIFY", "ASK_CLARIFY"}
              THEN turn[w].state.user_message
              ELSE Pre(w).last_subject_question
    /\ turn[w].pc = "returned"
       => store[turn[w].sid].last_subject_question
            = turn[w].state.last_subject_question

C27_Witness ==
  \E w \in Workers :
    /\ turn[w].pc = "returned" /\ Classified(w)
    /\ Pre(w).last_subject_question = "show code for a python loop"
    /\ turn[w].state.current_subject = LANGGRAPH
    /\ turn[w].state.router_result.mode = "ASK_CLARIFY"
    /\ store[turn[w].sid].last_subject_question = "show code for a python loop"

\* C28: the instructions the assistant sends begin with the simple-mode
\* template when the style is simple, and then hold neither the brevity
\* rules nor an override whatever the utterance asks for; with style normal
\* they begin with the brevity rules, followed by the verbose override
\* exactly when the utterance asks for detail and by the code override
\* exactly when it asks for code; the topic prompt and the tool advisory
\* close them, in this order.
C28_InstructionAssembly ==
  \A w \in Workers :
    Ran(w, "assistant")
    => LET p == turn[w].prompt
           u == turn[w].state.user_message
       IN  IF turn[w].state.style = "simple"
           THEN /\ p \in { <<"SIMPLE_MODE_PROMPT", "SUBJECT_PROMPTS", "tools">>,
                           <<"SIMPLE_MODE_PROMPT", "previous question",
                             "SUBJECT_PROMPTS", "tools">> }
           ELSE p = <<"CONCISE_RULES">>
                    \o (IF detect_verbosity(u) THEN <<"VERBOSE MODE">> ELSE <<>>)
                    \o (IF detect_code_request(u) THEN <<"CODE REQUESTED">> ELSE <<>>)
                    \o <<"SUBJECT_PROMPTS", "tools">>

C28_Witness ==
  \E w \in Workers :
    /\ Ran(w, "assistant") /\ turn[w].state.style = "simple"
    /\ detect_code_request(turn[w].state.user_message)
    /\ turn[w].prompt = <<"SIMPLE_MODE_PROMPT", "SUBJECT_PROMPTS", "tools">>

\* ------------------------------------------------------------------------
\* SpecTools: one turn whose assistant may ask for a web search, with and
\* without an API key, the client's search failing, finding nothing or
\* finding results.
\* ------------------------------------------------------------------------

ApiKeys == { None, "tvly-key" }

SearchRaises(error) == [raises |-> TRUE, error |-> error, results |-> 0]

SearchReturns(n) == [raises |-> FALSE, error |-> "", results |-> n]

SearchOutcomes == { SearchRaises("timeout"), SearchReturns(0), SearchReturns(2) }

ToolsGenerateOutcomes ==
  { GenerateReturns("", <<"web_search">>),
    GenerateReturns("Which topic do you mean?", <<>>),
    GenerateReturns("reply of 100 chars", <<>>) }

NextTools ==
  \E w \in Workers :
    \/ \E b \in FlowClassifierOutcomes : RouterStep(w, b)
    \/ \E b \in ToolsGenerateOutcomes : AssistantStep(w, b)
    \/ \E k \in ApiKeys, s \in SearchOutcomes : WebSearchStep(w, k, s)
    \/ \E b \in {BackendRaises} : VerifierStep(w, b)
    \/ \E b \in {TextRaises} : FinishTurn(w, b)

SpecTools == InitDecide /\ [][NextTools]_vars

\* The tool rounds of w's turn.
ToolRounds(w) == CallsNamed(w, "tools")

\* The position in w's history of the result message of tool round i.
ResultAt(w, i) ==
  Len(Pre(w).messages) + 1 + 2 * i

\* C29: a web search without an API key or with a failing client comes back
\* as a text that says so; the tool round does not raise, its text is the
\* tool message that follows the assistant's request in the history, and
\* the assistant runs next.
C29_ToolFailureIsMessage ==
  \A w \in Workers :
    \A i \in DOMAIN ToolRounds(w) :
      LET b == ToolRounds(w)[i].outcome
      IN  /\ ~b.raises
          /\ b.api_key = None
             => b.results = <<"Web search is unavailable. Please set the TAVILY_API_KEY environment variable.">>
          /\ (b.api_key /= None /\ b.search.raises)
             => b.results = <<"Web search failed: timeout">>
          /\ turn[w].state.messages[ResultAt(w, i)] = ToolMessage(b.results[1])
          /\ turn[w].state.messages[ResultAt(w, i) - 1].tool_calls = <<"web_search">>
          /\ i = Len(ToolRounds(w))
             => \/ turn[w].pc = "assistant" /\ turn[w].error = ""
                   /\ Last(turn[w].trace) = "tools"
                \/ Len(CallsNamed(w, "generate")) > i

C29_Witness ==
  \E w \in Workers :
    /\ ToolRounds(w) /= <<>>
    /\ ToolRounds(w)[1].outcome.api_key /= None
    /\ ToolRounds(w)[1].outcome.search.raises
    /\ turn[w].pc = "returned"
    /\ \E i \in DOMAIN store[turn[w].sid].messages :
         store[turn[w].sid].messages[i] = ToolMessage("Web search failed: timeout")

\* ------------------------------------------------------------------------
\* SpecNotes: the note and solution tools run one after another on the
\* global storage, as the tool loop runs them, with subject strings in
\* several spellings.
\* ------------------------------------------------------------------------

\* The saves of one run.
MaxItems == 2

NoteSubjects == { "PYTHON", "langgraph", "Rust", "" }

NoteContents == { <<"A", "b">>, <<"b", "a", "B">> }

NoteTags == { <<>>, << <<"T", "a">> >> }

Queries == { <<>>, <<"a", "B">>, <<"t">> }

\* The tool name ran with this subject string and came to done.
ToolCall(name, subject, done) ==
  /\ storage' = done.storage
  /\ called' = [name |-> name, subject |-> subject, result |-> done.result,
                 removed |-> called.removed, args |-> NoArgs]
  /\ UNCHANGED <<store, turn, nturns>>

SaveNote(content, subject, tags) ==
  /\ storage.made < MaxItems
  /\ ToolCall("save_note", subject, save_note(storage, content, subject, tags))

GetNotes(subject) == ToolCall("get_notes", subject, get_notes(storage, subject))

SearchNotes(query, subject) ==
  ToolCall("search_notes", subject, search_notes(storage, query, subject))

SaveSolution(problem, solution, subject, tags) ==
  /\ storage.made < MaxItems
  /\ ToolCall("save_solution", subject,
              save_solution(storage, problem, solution, subject, tags))

GetSolutions(subject) ==
  ToolCall("get_solutions", subject, get_solutions(storage, subject))

SearchSolutions(query, subject) ==
  ToolCall("search_solutions", subject, search_solutions(storage, query, subject))

NextNotes ==
  \E subject \in NoteSubjects :
    \/ \E content \in NoteContents, tags \in NoteTags : SaveNote(content, subject, tags)
    \/ GetNotes(subject)
    \/ \E query \in Queries : SearchNotes(query, subject)
    \/ SaveSolution(<<"A">>, <<"b", "a">>, subject, <<>>)
    \/ GetSolutions(subject)
    \/ \E query \in Queries : SearchSolutions(query, subject)

SpecNotes == Init /\ [][NextNotes]_vars

\* The member of the Subject enum a subject string names in some letter
\* case, GENERAL when it names none.
Named(subject) ==
  LET folded == Lower(subject)
  IN  IF \E s \in Subject : Lower(s) = folded
      THEN CHOOSE s \in Subject : Lower(s) = folded
      ELSE GENERAL

\* The items of every subject but s: the notes, then the solutions.
ItemsOutside(s) ==
  UNION { { storage.notes[o][i] : i \in DOMAIN storage.notes[o] }
          \cup { storage.solutions[o][i] : i \in DOMAIN storage.solutions[o] } :
          o \in Subject \ {s} }

\* C30: a note or solution tool run with a subject string that names no
\* member of the Subject enum works on GENERAL and returns its usual text;
\* run with a member's name in any letter case it works on that member: a
\* save appends its item to that subject's list and to no other, a read
\* lists items of that subject's list only.
C30_SubjectDefaultsToGeneral ==
  /\ \A s \in Subject :
       /\ \A i \in DOMAIN storage.notes[s] : storage.notes[s][i].subject = s
       /\ \A i \in DOMAIN storage.solutions[s] : storage.solutions[s][i].subject = s
  /\ called.name /= None
     => LET s == Named(called.subject)
            items == called.result.items
        IN  /\ called.name = "save_note"
               => /\ storage.notes[s] /= <<>> /\ Last(storage.notes[s]) = items[1]
                  /\ items[1] \notin ItemsOutside(s)
            /\ called.name = "save_solution"
               => /\ storage.solutions[s] /= <<>>
                  /\ Last(storage.solutions[s]) = items[1]
                  /\ items[1] \notin ItemsOutside(s)
            /\ called.name = "get_notes" => items = storage.notes[s]
            /\ called.name = "get_solutions" => items = storage.solutions[s]
            /\ called.name = "search_notes"
               => \A i \in DOMAIN items :
                    \E j \in DOMAIN storage.notes[s] : storage.notes[s][j] = items[i]
            /\ called.name = "search_solutions"
               => \A i \in DOMAIN items :
                    \E j \in DOMAIN storage.solutions[s] :
                      storage.solutions[s][j] = items[i]

C30_Witness ==
  /\ called.name = "get_notes" /\ called.subject = "Rust"
  /\ Len(called.result.items) = 1
  /\ called.result.items[1].subject = GENERAL
  /\ storage.notes["python"] /= <<>>

\* ------------------------------------------------------------------------
\* SpecStore: notes saved, listed, searched and deleted in two subjects.
\* ------------------------------------------------------------------------

StoreSubjects == { "python", "general" }

\* main.py:113-123, storage.py:49-55: delete a note of a subject by its id
DeleteNote(subject, note_id) ==
  LET done == delete_note(storage, subject, note_id)
  IN  /\ storage' = done.storage
      /\ called' = [name |-> "delete_note", subject |-> subject,
                    result |-> ToolText(IF done.found THEN "Note deleted successfully"
                                        ELSE "Note not found", subject, <<>>, <<>>),
                    removed |-> IF done.found THEN called.removed \cup {note_id}
                                ELSE called.removed,
                    args |-> NoArgs]
      /\ UNCHANGED <<store, turn, nturns>>

NextStore ==
  \E subject \in StoreSubjects :
    \/ \E content \in NoteContents, tags \in NoteTags : SaveNote(content, subject, tags)
    \/ GetNotes(subject)
    \/ \E query \in Queries : SearchNotes(query, subject)
    \/ \E note_id \in 1..MaxItems : DeleteNote(subject, note_id)

SpecStore == Init /\ [][NextStore]_vars

\* Some stretch of the text is the query, letter case apart.
ContainsFolded(text, q) ==
  \E a \in 0..Len(text) : \E b \in a..Len(text) :
    LowerText(SubSeq(text, a + 1, b)) = LowerText(q)

NoteMatches(note, q) ==
  \/ ContainsFolded(note.content, q)
  \/ \E t \in DOMAIN note.tags : ContainsFolded(note.tags[t], q)

\* C31: a search lists exactly the notes of the subject whose content or
\* some tag holds the query, letter case apart, each once and in the order
\* they were saved; a note that has been deleted is in no list of the
\* storage and in no later listing or search; a search leaves the storage
\* as it was.
C31_SearchNotes ==
  /\ [](/\ called.name = "search_notes"
           => LET items == called.result.items
              IN  /\ items = SelectSeq(storage.notes[Named(called.subject)],
                                       LAMBDA note : NoteMatches(note, called.result.query))
                  /\ \A i \in DOMAIN items : \A j \in DOMAIN items :
                       i < j => items[i].id < items[j].id
        /\ \A id \in called.removed :
             /\ \A s \in Subject : \A i \in DOMAIN storage.notes[s] :
                  storage.notes[s][i].id /= id
             /\ called.name \in {"search_notes", "get_notes"}
                => \A i \in DOMAIN called.result.items : called.result.items[i].id /= id)
  /\ [][called'.name = "search_notes" => storage' = storage]_vars

C31_Witness ==
  /\ called.name = "search_notes" /\ called.removed /= {}
  /\ called.result.query = <<"t">>
  /\ Len(called.result.items) = 1
  /\ ~ContainsFolded(called.result.items[1].content, <<"t">>)

\* The session of w's turn was in the store when the turn began.
Stored(w) == turn[w].pc /= "idle" /\ Pre(w).messages /= <<>>

\* C32: every stored context has a Subject for its topic, so a turn of a
\* stored session whose utterance has simplify intent is routed on the fast
\* path: no classification call, mode SIMPLIFY, and the topic the session had
\* stays, whatever topic the utterance names.
C32_StoredTopicNeverNone ==
  /\ \A sid \in DOMAIN store : store[sid].current_subject \in Subject
  /\ \A w \in Workers :
       (Stored(w) /\ detect_simplify_intent(turn[w].state.user_message))
       => /\ Pre(w).current_subject \in Subject
          /\ CallsNamed(w, "classify") = <<>>
          /\ turn[w].state.current_subject = Pre(w).current_subject
          /\ Ran(w, "router")
             => /\ turn[w].error = ""
                /\ turn[w].state.router_result.mode = "SIMPLIFY"
          /\ turn[w].pc = "returned"
             => store[turn[w].sid].current_subject = Pre(w).current_subject

C32_Witness ==
  \E w \in Workers :
    /\ Stored(w) /\ turn[w].pc = "returned"
    /\ turn[w].state.user_message = "what is the main concept of LangGraph"
    /\ Pre(w).current_subject = "python"
    /\ store[turn[w].sid].current_subject = "python"

\* C33: a turn enters the router with style normal whatever style the
\* session has stored; the router leaves style simple exactly when the mode
\* it ends with is SIMPLIFY, so a SIMPLIFY decision that the confidence gate
\* turns into ASK_CLARIFY leaves normal; the store and the reply get the
\* style the router left.
C33_StyleNotLatched ==
  \A w \in Workers :
    /\ turn[w].pc = "router" => turn[w].state.style = "normal"
    /\ RouterReturned(w)
       => /\ turn[w].state.style = "simple"
             <=> turn[w].state.router_result.mode = "SIMPLIFY"
          /\ (turn[w].state.style /= "normal" /\ Classified(w)
              /\ Pre(w).attempts_clarify < 2)
             => ~(Decision(w).mode = "SIMPLIFY" /\ Decision(w).confidence < 65)
    /\ turn[w].pc = "returned"
       => /\ store[turn[w].sid].style = turn[w].state.style
          /\ turn[w].returned.style = turn[w].state.style

C33_Witness ==
  \E w \in Workers :
    /\ Pre(w).style = "simple" /\ turn[w].pc = "returned" /\ Classified(w)
    /\ ~detect_simplify_intent(turn[w].state.user_message)
    /\ parse_router_json(ClassifierText(w)).ok
    /\ Decision(w).mode = "SIMPLIFY" /\ Decision(w).confidence = 64
    /\ store[turn[w].sid].style = "normal"

\* The subject a topic of a routing decision stands for: the member of the
\* enum other than GENERAL that it spells, letter case apart, else GENERAL.
SubjectNamed(topic) ==
  LET folded == Lower(topic)
  IN  IF folded \in Subject \ {GENERAL} THEN folded ELSE GENERAL

\* C34: on the classifier path the router leaves as current topic the
\* subject of the decision's topic, GENERAL for Unknown and for a topic that
\* names no subject, also when the turn ends in ASK_CLARIFY and whatever
\* topic the session had; a returned turn stores it.
C34_TopicFollowsDecision ==
  \A w \in Workers :
    (RouterReturned(w) /\ Classified(w))
    => /\ turn[w].state.current_subject
            = SubjectNamed(turn[w].state.router_result.topic)
       /\ turn[w].pc = "returned"
          => /\ store[turn[w].sid].current_subject = turn[w].state.current_subject
             /\ turn[w].returned.detected_subject = turn[w].state.current_subject

C34_Witness ==
  \E w \in Workers :
    /\ turn[w].pc = "returned" /\ Classified(w)
    /\ Pre(w).current_subject = "python"
    /\ turn[w].state.router_result.mode = "ASK_CLARIFY"
    /\ turn[w].state.router_result.topic = "Unknown"
    /\ store[turn[w].sid].current_subject = GENERAL

\* C35: the last answer a returned turn stores is the content of the last
\* message of the history it stores, with and without tool rounds and a
\* revision.
C35_LastAnswerIsLastMessage ==
  \A w \in Workers :
    turn[w].pc = "returned"
    => /\ store[turn[w].sid].messages /= <<>>
       /\ store[turn[w].sid].last_assistant_answer
            = Last(store[turn[w].sid].messages).content

C35_Witness ==
  \E w \in Workers :
    /\ turn[w].pc = "returned"
    /\ turn[w].trace = <<"router", "assistant", "tools", "assistant", "verifier", "revise">>
    /\ store[turn[w].sid].last_assistant_answer = "revised reply of 400 chars"

\* C36: a returned turn stores the graph's messages and last answer as the
\* graph left them, so the store never holds the condensed text; the reply
\* it returns differs from the content of the last stored message exactly
\* when the condensation call was made and returned another text.
C36_CondensationOnlyInReply ==
  \A w \in Workers :
    turn[w].pc = "returned"
    => LET kept == store[turn[w].sid]
       IN  /\ kept.messages = turn[w].state.messages
           /\ kept.last_assistant_answer = turn[w].state.last_assistant_answer
           /\ \A i \in DOMAIN kept.messages :
                kept.messages[i].content /= "concise reply of 300 chars"
           /\ turn[w].returned.response /= Last(kept.messages).content
              <=> /\ Condensed(w)
                  /\ CallsNamed(w, "condense")[1].outcome.text
                       /= Last(kept.messages).content

C36_Witness ==
  \E w \in Workers :
    /\ turn[w].pc = "returned" /\ Condensed(w)
    /\ turn[w].returned.response = "concise reply of 300 chars"
    /\ Last(store[turn[w].sid].messages).content = "reply of 1201 chars"
    /\ store[turn[w].sid].last_assistant_answer = "reply of 1201 chars"

\* The places of a node in the trace of w's turn.
RunsOf(w, node) == { i \in DOMAIN turn[w].trace : turn[w].trace[i] = node }

\* C37: the verifier flag is false whenever the assistant has finished, so
\* the graph never goes from the assistant to its end: after the assistant
\* come the tools or the verifier; the verifier runs at most once in a turn,
\* and in a turn whose graph has finished it has run exactly once, right
\* after the last run of the assistant.
C37_VerifierRunsOnce ==
  \A w \in Workers :
    LET trace == turn[w].trace
    IN  /\ (trace /= <<>> /\ Last(trace) = "assistant")
           => /\ ~turn[w].state.verifier_passed
              /\ turn[w].pc \in {"tools", "verifier", "raised"}
              /\ turn[w].pc = "raised" => turn[w].error /= ""
        /\ Cardinality(RunsOf(w, "verifier")) <= 1
        /\ turn[w].pc \in {"END", "returned"}
           => \E v \in RunsOf(w, "verifier") :
                /\ v > 1 /\ trace[v - 1] = "assistant"
                /\ \A a \in RunsOf(w, "assistant") : a < v

C37_Witness ==
  \E w \in Workers :
    /\ turn[w].pc = "returned"
    /\ turn[w].trace = <<"router", "assistant", "tools", "assistant", "verifier">>
    /\ TextLen(Last(turn[w].state.messages).content) = 99

\* C38: the history a returned turn stores is not empty and ends with a
\* message of the assistant that asks for no tool: not with the user's
\* message, a tool's result or a request for tools.
C38_HistoryEndsWithAnswer ==
  \A w \in Workers :
    turn[w].pc = "returned"
    => LET messages == store[turn[w].sid].messages
       IN  /\ messages /= <<>>
           /\ Last(messages).type = "ai"
           /\ Last(messages).tool_calls = <<>>
           /\ Len(messages) >= Len(Pre(w).messages) + 2

C38_Witness ==
  \E w \in Workers :
    /\ turn[w].pc = "returned" /\ Ran(w, "tools")
    /\ \E i \in DOMAIN store[turn[w].sid].messages :
         store[turn[w].sid].messages[i].type = "tool"
    /\ Last(store[turn[w].sid].messages) = AIMessage("reply of 100 chars", <<>>)

\* ------------------------------------------------------------------------
\* SpecHistory: exchanges stored for two sessions in two subjects, and the
\* history read back with a limit.
\* ------------------------------------------------------------------------

\* The exchanges of one run.
MaxExchanges == 2

HistorySessions == { "default", "s1" }

HistorySubjects == { "PYTHON", "general", "Rust" }

HistoryMessages == { "what is a list", "I DONT UNDERSTAND" }

HistoryLimits == { 0, 1, 3, 20 }

\* The messages the storage holds.
Exchanged(st) ==
  Cardinality({ m \in (DOMAIN st.history) \X StoreSubjects \X (1..(2 * MaxExchanges)) :
                  m[3] <= Len(st.history[m[1]][m[2]]) })

\* main.py:55-68: send_message stores the user's message and the reply under
\* the subject the turn detected
StoreExchange(session_id, subject, message, response) ==
  LET asked == add_message(storage, session_id, subject, "user", message).storage
      done == add_message(asked, session_id, subject, "assistant", response)
  IN  /\ Exchanged(storage) < 2 * MaxExchanges
      /\ storage' = done.storage
      /\ called' = [name |-> "add_message", subject |-> subject,
                    result |-> ToolText("message", subject, <<>>, <<done.item>>),
                    removed |-> called.removed,
                    args |-> [session_id |-> session_id, limit |-> 0,
                              known |-> session_id \in DOMAIN storage.history]]
      /\ UNCHANGED <<store, turn, nturns>>

\* main.py:188-196: the history of a subject; a subject string that names
\* no subject is refused (HTTP 400)
GetHistory(subject, session_id, limit) ==
  LET valid == Lower(subject) \in Subject
      result == IF valid
                THEN ToolText("history", subject, <<>>,
                              get_history_of(storage, session_id, Lower(subject), limit))
                ELSE ToolText("Invalid subject", subject, <<>>, <<>>)
  IN  /\ called' = [name |-> "get_history", subject |-> subject, result |-> result,
                    removed |-> called.removed,
                    args |-> [session_id |-> session_id, limit |-> limit,
                              known |-> session_id \in DOMAIN storage.history]]
      /\ UNCHANGED <<store, turn, nturns, storage>>

NextHistory ==
  \/ \E session_id \in HistorySessions, subject \in StoreSubjects,
         message \in HistoryMessages :
       StoreExchange(session_id, subject, message, "reply of 100 chars")
  \/ \E subject \in HistorySubjects, session_id \in HistorySessions,
         limit \in HistoryLimits :
       GetHistory(subject, session_id, limit)

SpecHistory == Init /\ [][NextHistory]_vars

\* C39: reading a subject's history of a session with a limit of 0 or more
\* gives the latest min(limit, n) of its n messages in the order they were
\* stored, never more than limit; for a session without history it gives the
\* empty list and the session still has none.
C39_GetHistory ==
  (called.name = "get_history" /\ called.result.kind = "history"
     /\ called.args.limit >= 0)
  => LET session_id == called.args.session_id
         items == called.result.items
         stored == IF session_id \in DOMAIN storage.history
                   THEN storage.history[session_id][Lower(called.subject)]
                   ELSE <<>>
         n == Len(stored)
         k == IF called.args.limit < n THEN called.args.limit ELSE n
     IN  /\ items = SubSeq(stored, n - k + 1, n)
         /\ Len(items) <= called.args.limit
         /\ ~called.args.known
            => items = <<>> /\ session_id \notin DOMAIN storage.history

C39_LimitZeroReturnsAll ==
  /\ called.name = "get_history" /\ called.args.limit = 0
  /\ called.args.session_id = "default" /\ called.subject = "PYTHON"
  /\ "default" \in DOMAIN storage.history
  /\ Len(storage.history["default"]["python"]) = 4
  /\ called.result.items = storage.history["default"]["python"]

====
